---- MODULE Spec2Model ----
(***************************************************************************)
(* Model of the PDF highlight front end of Library_AI_land:                *)
(*   - usePdfJsOverlay (composables/usePdfJsOverlay.ts, v4.1 definition):  *)
(*     bbox geometry (normalizeAndClampBBox, clampContinuationBBox,        *)
(*     bboxToOverlayRect) and the attach/poll/detach life cycle;           *)
(*   - PdfHighlightOverlay.vue: highlightData, toRect, paragraphRects;     *)
(*   - usePDFHighlight (image viewer): applyHighlightsFromResults,         *)
(*     getHighlightRectsForPage.                                           *)
(*                                                                         *)
(* Units.  PDF coordinates are integers in centipoints (1pt = 100 units),  *)
(* so that page_height * (1 - 0.06) is exact for pages whose height is a   *)
(* whole number of points.  Ratios are percentages compared by             *)
(* cross-multiplication.  Pixel results are exact rationals: a rect keeps  *)
(* the numerators leftN, widthN over the denominator vw and topN, heightN  *)
(* over vh (JavaScript computes the same values in IEEE doubles; rounding  *)
(* is not modelled).                                                       *)
(***************************************************************************)
EXTENDS Integers, Sequences, FiniteSets, TLC

VARIABLES
  \* ---- usePdfJsOverlay instance state (usePdfJsOverlay.ts:66-99)
  iframeReady,        \* ref(false)
  visiblePages,       \* ref<number[]>
  pageInfoCache,      \* Map<number, PdfJsPageInfo>, a function on its key set
  bboxCoordOrigin,    \* "pymupdf-top-left" | "pdf-bottom-left"
  \* ---- one bboxToOverlayRect call (its arguments and what it produced)
  bbox, bboxListLength, bboxIndexInList,
  corrected,          \* nb after line 375, or NULL
  recorrected,        \* the same correction applied to `corrected`
  rectOut,            \* the OverlayRect returned, or NULL
  gpc,                \* position of the call: "input" | "done"
  \* ---- PdfHighlightOverlay.vue component state
  searchResults,      \* props.searchResults
  iframeOffsetX, iframeOffsetY,   \* refs set by updateIframeOffset
  overlayRoot,        \* [clientWidth, clientHeight] of the overlay root element
  paragraphRects,     \* computed paragraphRects as last rendered
  articleRects,       \* computed articleRects as last rendered
  toRectCalls,        \* the toRect calls of the last paragraphRects evaluation
  opc,                \* "props" | "rendered"
  \* ---- usePDFHighlight instance state (unnamed/part_004:128-136)
  highlights,         \* ref<HighlightData[]>
  pageDimensionsCache,\* Map<number, PageDimensions>
  highlightRects,     \* what the last getHighlightRectsForPage call returned
  lastCall,           \* its arguments [pageNo, displayWidth, displayHeight], or NULL
  \* ---- usePdfJsOverlay attach life cycle (usePdfJsOverlay.ts:71-75)
  _scrollHandler,     \* id of the handler held, 0 for null
  _resizeObserver,    \* id of the observer held, 0 for null
  _pollInterval,      \* id of the interval held, 0 for null
  _iframeRef,         \* TRUE when an iframe is referenced, FALSE for null
  _onUpdateCallback,  \* TRUE when a callback is held, FALSE for null
  \* ---- the browser around it
  viewerLoaded,       \* the iframe's PDF.js viewer has rendered pages
  intervals,          \* per attachToIframe call: its setInterval timer
                      \* [live, retryCount] (retryCount is the closure's)
  promises,           \* per call: "none" | "pending" | "true" | "false"
  attempts,           \* per call: tryAttach invocations so far
  scrollListeners,    \* handlers registered on viewerContainer
  resizeObservers,    \* ResizeObservers observing #viewer
  eventBusHandlers,   \* successful attaches whose eventBus.on handlers remain
  nCalls,             \* attachToIframe calls made
  \* ---- useConstitutionAPI.comparativeSearch and the backend behind it
  cmpParams,          \* params of the last comparativeSearch call, or NULL
  cmpBody,            \* the request body it sent, or NULL
  cmpResponse,        \* foreign_results of the response, or NULL
  \* ---- one request to the Hybrid Search Engine (backend)
  engRequest,         \* [top_k, use_reranking]
  engIndex,           \* [vector, keyword]: the score each sub-query finds
                      \* per chunk (read-only index)
  engVector,          \* the vector sub-query [status, attempts, failures]
  engKeyword,         \* the keyword sub-query, likewise
  engRerank,          \* the reranker call, likewise
  engFused,           \* score_fused per chunk once joined, or NULL
  engDegraded,        \* fusion used one branch only
  engResponse,        \* the response, or NULL while the request runs
  engPc,               \* "idle" | "subqueries" | "reranking" | "done"
  \* ---- one chunk(nodes, ...) call of the Chunker
  chkInput,           \* nodes and token budgets, or NULL
  chkOutput,          \* [chunks: Chunk[]] returned, or NULL
  \* ---- one connectToIframe call of PdfHighlightOverlay
  connIframe,         \* the iframe found: [exists, complete], or NULL
  connLoadListener,   \* the once-only "load" listener is registered
  connTimer,          \* the 1500 ms fallback timer is pending
  connOnLoad,         \* per onLoad run: "none" | "sleeping" | "done"
  \* ---- constitution search page (pages/law/index.vue:455-466)
  query,              \* ref("")
  selectedCountry,    \* ref("GH")
  hasSearched,        \* ref(false)
  isSearching,        \* ref(false)
  pageSearchResults,  \* searchResults = ref(null): the response held
  error,              \* ref(null): the message, or NULL
  todayHistory,       \* queries unshifted by completed searches
  requests,           \* the $fetch calls issued, each [query,
                      \* target_country, status]
  \* ---- page-image viewer (unnamed/part_009 over usePDFHighlight)
  currentPage,        \* ref(1)
  totalPages,         \* ref(0)
  activeHighlightIndex, \* ref(null), NoIndex for null
  initialPage,        \* props.initialPage
  viewerMounted,      \* onMounted has run
  \* ---- book list (pages/books.vue:335-349)
  books,              \* ref([]): the books shown, in order
  totalBooks,         \* ref(0)
  loading,            \* ref(true)
  loadingMore,        \* ref(false)
  offset,             \* ref(0)
  sortBy,             \* ref("recent")
  bookRequests,       \* the $fetch calls issued, each [offset, loadMore,
                      \* status]
  \* ---- upload page (unnamed/part_005:417-423)
  selectedFile,       \* a file is selected
  bookTitle,          \* bookData.title is not empty
  uploading,          \* ref(false)
  uploadSuccess,      \* ref("")
  uploadError,        \* ref("")
  uploadProgress,     \* ref(null): [steps], or NULL
  uploads             \* per uploadBook call: [status, timer], timer the
                      \* progress timer pending (1..5) or 0

compVars == <<searchResults, iframeOffsetX, iframeOffsetY, overlayRoot,
              paragraphRects, articleRects, toRectCalls, opc>>
attVars == <<_scrollHandler, _resizeObserver, _pollInterval, _iframeRef,
             _onUpdateCallback, viewerLoaded, intervals, promises, attempts,
             scrollListeners, resizeObservers, eventBusHandlers, nCalls>>
hlVars == <<highlights, pageDimensionsCache, highlightRects, lastCall>>
geomVars == <<bbox, bboxListLength, bboxIndexInList, corrected, recorrected,
              rectOut, gpc>>
instVars == <<iframeReady, visiblePages, pageInfoCache, bboxCoordOrigin>>
apiVars == <<cmpParams, cmpBody, cmpResponse>>
engVars == <<engRequest, engIndex, engVector, engKeyword, engRerank, engFused,
             engDegraded, engResponse, engPc>>
chunkVars == <<chkInput, chkOutput>>
lawVars == <<query, selectedCountry, hasSearched, isSearching,
            pageSearchResults, error, todayHistory, requests>>
viewerVars == <<currentPage, totalPages, activeHighlightIndex, initialPage,
               viewerMounted>>
bookVars == <<books, totalBooks, loading, loadingMore, offset, sortBy,
             bookRequests>>
uploadVars == <<selectedFile, bookTitle, uploading, uploadSuccess, uploadError,
               uploadProgress, uploads>>
pageVars == <<lawVars, viewerVars, bookVars, uploadVars>>
connVars == <<connIframe, connLoadListener, connTimer, connOnLoad>>
vars == <<instVars, geomVars, compVars, hlVars, attVars, apiVars, engVars,
          chunkVars, connVars, pageVars>>

\* ------------------------------------------------------------------------
\* Values
\* ------------------------------------------------------------------------
NULL == [isNull |-> TRUE]

Pt(n) == n * 100

Min(a, b) == IF a <= b THEN a ELSE b
Max(a, b) == IF a >= b THEN a ELSE b

CONTINUATION_MAX_H_PCT == 80
FOOTER_MARGIN_PCT == 6
FULL_PAGE_PCT == 99
MIN_BOX_PT == 1

\* ------------------------------------------------------------------------
\* usePdfJsOverlay: geometry
\* ------------------------------------------------------------------------
\* A bbox whose `finite` flag is FALSE carries a NaN coordinate.
normalizeAndClampBBox_NoClamp(b, vw, vh) ==
  IF ~b.finite THEN NULL
  ELSE LET nx0 == Min(b.x0, b.x1)
           nx1 == Max(b.x0, b.x1)
           ny0 == Min(b.y0, b.y1)
           ny1 == Max(b.y0, b.y1)
       IN IF nx1 - nx0 < Pt(MIN_BOX_PT) \/ ny1 - ny0 < Pt(MIN_BOX_PT)
          THEN NULL
          ELSE [b EXCEPT !.x0 = nx0, !.y0 = ny0, !.x1 = nx1, !.y1 = ny1]

normalizeAndClampBBox_NoMinSize(b, vw, vh) ==
  IF ~b.finite THEN NULL
  ELSE LET nx0 == Min(b.x0, b.x1)
           nx1 == Max(b.x0, b.x1)
           ny0 == Min(b.y0, b.y1)
           ny1 == Max(b.y0, b.y1)
       IN [b EXCEPT !.x0 = Max(0, Min(vw, nx0)), !.y0 = Max(0, Min(vh, ny0)),
                    !.x1 = Max(0, Min(vw, nx1)), !.y1 = Max(0, Min(vh, ny1))]

normalizeAndClampBBox(b, vw, vh) ==
  IF ~b.finite THEN NULL
  ELSE LET nx0 == Min(b.x0, b.x1)
           nx1 == Max(b.x0, b.x1)
           ny0 == Min(b.y0, b.y1)
           ny1 == Max(b.y0, b.y1)
           cx0 == Max(0, Min(vw, nx0))
           cx1 == Max(0, Min(vw, nx1))
           cy0 == Max(0, Min(vh, ny0))
           cy1 == Max(0, Min(vh, ny1))
       IN IF cx1 - cx0 < Pt(MIN_BOX_PT) \/ cy1 - cy0 < Pt(MIN_BOX_PT)
          THEN NULL
          ELSE [b EXCEPT !.x0 = cx0, !.y0 = cy0, !.x1 = cx1, !.y1 = cy1]

\* vh * (1 - FOOTER_MARGIN_RATIO)
FooterLine(vh) == (vh * (100 - FOOTER_MARGIN_PCT)) \div 100

clampContinuationBBox_Off(b, vh, isContinuation) == b

clampContinuationBBox(b, vh, isContinuation) ==
  IF ~isContinuation THEN b
  ELSE IF (b.y1 - b.y0) * 100 <= CONTINUATION_MAX_H_PCT * vh THEN b
  ELSE LET clampedY1 == FooterLine(vh)
       IN IF clampedY1 <= b.y0 THEN b
          ELSE [b EXCEPT !.y1 = clampedY1]

\* bboxToOverlayRect line 354-359
PageNumberOf(b) ==
  IF b.hasPage /\ b.page > 0 THEN b.page
  ELSE IF b.hasPageIndex /\ b.page_index >= 0 THEN b.page_index + 1
  ELSE 0

\* bboxToOverlayRect line 374
IsContinuation(listLength, indexInList) == listLength > 1 /\ indexInList > 0

\* bboxToOverlayRect lines 368-375: the box after normalisation and the
\* continuation clamp (NULL when normalisation rejects it)
CorrectBBox(b, vw, vh, isContinuation) ==
  LET nb == normalizeAndClampBBox(b, vw, vh)
  IN IF nb = NULL THEN NULL ELSE clampContinuationBBox(nb, vh, isContinuation)

\* bboxToOverlayRect lines 377-385
IsFullPage(nb, vw, vh) ==
  /\ (nb.x1 - nb.x0) * 100 >= FULL_PAGE_PCT * vw
  /\ (nb.y1 - nb.y0) * 100 >= FULL_PAGE_PCT * vh

bboxToOverlayRect(cache, origin, b, listLength, indexInList) ==
  LET pageNumber == PageNumberOf(b)
  IN IF pageNumber \notin DOMAIN cache THEN NULL
     ELSE
       LET pageInfo == cache[pageNumber]
           cr == pageInfo.canvasRect
           vw == pageInfo.viewportWidth
           vh == pageInfo.viewportHeight
           nb == CorrectBBox(b, vw, vh, IsContinuation(listLength, indexInList))
       IN IF nb = NULL THEN NULL
          ELSE IF IsFullPage(nb, vw, vh) THEN NULL
          ELSE
            LET y0 == IF origin = "pymupdf-top-left" THEN vh - nb.y1 ELSE nb.y0
                y1 == IF origin = "pymupdf-top-left" THEN vh - nb.y0 ELSE nb.y1
            IN [ leftN      |-> cr.left * vw + nb.x0 * cr.width,
                 topN       |-> cr.top * vh + y0 * cr.height,
                 widthN     |-> (nb.x1 - nb.x0) * cr.width,
                 heightN    |-> (y1 - y0) * cr.height,
                 denX       |-> vw,
                 denY       |-> vh,
                 pageNumber |-> pageNumber ]

\* ------------------------------------------------------------------------
\* What the PDF.js viewer shows (read by refreshPageInfo, lines 197-257):
\* pages 4 and 5 are A4 (595 x 842 pt) at zoom 1.5, stacked vertically and
\* scrolled so that the end of page 4 and the start of page 5 are in view;
\* page 6 is a degenerate 1 x 1 pt page further down.
\* ------------------------------------------------------------------------
A4Width == Pt(595)
A4Height == Pt(842)

ViewerPageInfo ==
  (4 :> [ canvasRect |-> [left |-> 10, top |-> -900, width |-> 893, height |-> 1263],
          viewportWidth |-> A4Width, viewportHeight |-> A4Height ])
  @@
  (5 :> [ canvasRect |-> [left |-> 10, top |-> 373, width |-> 893, height |-> 1263],
          viewportWidth |-> A4Width, viewportHeight |-> A4Height ])
  @@
  (6 :> [ canvasRect |-> [left |-> 455, top |-> 1646, width |-> 3, height |-> 3],
          viewportWidth |-> Pt(1), viewportHeight |-> Pt(1) ])

\* The pages _updateVisiblePages (lines 259-279) finds overlapping the
\* viewer container
ViewerVisiblePages == <<4, 5>>

Origins == {"pymupdf-top-left", "pdf-bottom-left"}

\* ------------------------------------------------------------------------
\* Specification SpecBBox: one bboxToOverlayRect call on every input box
\* ------------------------------------------------------------------------
XCoords == {0 - Pt(5), 0, Pt(400), Pt(595) - 50, Pt(595), Pt(600)}
YCoords == {0 - Pt(5), 0, Pt(2), Pt(57), Pt(200), Pt(700), FooterLine(A4Height),
            Pt(838), Pt(842) - 50, Pt(842), Pt(900)}
BoxPages == {4, 5, 6, 7}

MaxListLength == 2

ListPositions ==
  {p \in (1..MaxListLength) \X (0..(MaxListLength - 1)) : p[2] < p[1]}

InputBoxes ==
  [ hasPage : {TRUE}, page : BoxPages, hasPageIndex : {FALSE}, page_index : {0},
    finite : {TRUE}, x0 : XCoords, y0 : YCoords, x1 : XCoords, y1 : YCoords ]

MaxCalls == 2

Calls == 1..MaxCalls

\* usePdfJsOverlay's closure variables as constructed (lines 71-75), in a
\* browser where attachToIframe has not been called
AttachIdle ==
  /\ _scrollHandler = 0 /\ _resizeObserver = 0 /\ _pollInterval = 0
  /\ _iframeRef = FALSE /\ _onUpdateCallback = FALSE
  /\ intervals = [c \in Calls |-> [live |-> FALSE, retryCount |-> 0]]
  /\ promises = [c \in Calls |-> "none"]
  /\ attempts = [c \in Calls |-> 0]
  /\ scrollListeners = {} /\ resizeObservers = {} /\ eventBusHandlers = 0
  /\ nCalls = 0

\* The same after one attachToIframe call whose first tryAttach succeeded
AttachedOnce ==
  /\ _scrollHandler = 1 /\ _resizeObserver = 1 /\ _pollInterval = 0
  /\ _iframeRef = TRUE /\ _onUpdateCallback = TRUE
  /\ intervals = [c \in Calls |-> [live |-> FALSE, retryCount |-> 0]]
  /\ promises = [c \in Calls |-> IF c = 1 THEN "true" ELSE "none"]
  /\ attempts = [c \in Calls |-> IF c = 1 THEN 1 ELSE 0]
  /\ scrollListeners = {1} /\ resizeObservers = {1} /\ eventBusHandlers = 1
  /\ nCalls = 1
  /\ viewerLoaded = TRUE

\* usePDFHighlight as constructed (part_004:128-136)
HighlightIdle ==
  /\ highlights = <<>>
  /\ pageDimensionsCache = << >>
  /\ highlightRects = <<>>
  /\ lastCall = NULL

\* No comparativeSearch call has been made
ApiIdle ==
  /\ cmpParams = NULL
  /\ cmpBody = NULL
  /\ cmpResponse = NULL

\* The onLoad runs one connectToIframe call can start: awaited directly,
\* from the iframe's load event, from the fallback timer
OnLoadRuns == {"direct", "load", "timer"}

\* connectToIframe has not been called
ConnectIdle ==
  /\ connIframe = NULL
  /\ connLoadListener = FALSE
  /\ connTimer = FALSE
  /\ connOnLoad = [r \in OnLoadRuns |-> "none"]

\* The search page as mounted, lines 455-471; "q1" stands for the sample
\* query todayHistory starts with
LawIdle ==
  /\ query = ""
  /\ selectedCountry = "GH"
  /\ hasSearched = FALSE
  /\ isSearching = FALSE
  /\ pageSearchResults = NULL
  /\ error = NULL
  /\ todayHistory = << [query |-> "q1"] >>
  /\ requests = <<>>

NoIndex == 0 - 1

\* The viewer's refs as usePDFHighlight creates them (part_004:129-134),
\* before the component is mounted
ViewerIdle ==
  /\ currentPage = 1
  /\ totalPages = 0
  /\ activeHighlightIndex = NoIndex
  /\ initialPage = 1
  /\ viewerMounted = FALSE

\* The book list as set up, books.vue:335-349
BooksIdle ==
  /\ books = <<>>
  /\ totalBooks = 0
  /\ loading = TRUE
  /\ loadingMore = FALSE
  /\ offset = 0
  /\ sortBy = "recent"
  /\ bookRequests = <<>>

\* The upload page as set up, part_005:417-434
UploadIdle ==
  /\ selectedFile = FALSE
  /\ bookTitle = FALSE
  /\ uploading = FALSE
  /\ uploadSuccess = ""
  /\ uploadError = ""
  /\ uploadProgress = NULL
  /\ uploads = <<>>

PagesIdle == LawIdle /\ ViewerIdle /\ BooksIdle /\ UploadIdle

\* No chunk call has been made
ChunkIdle ==
  /\ chkInput = NULL
  /\ chkOutput = NULL

\* No search request is running
CallIdle == [status |-> "idle", attempts |-> 0, failures |-> 0]

EngineIdle ==
  /\ engRequest = NULL
  /\ engIndex = NULL
  /\ engVector = CallIdle /\ engKeyword = CallIdle /\ engRerank = CallIdle
  /\ engFused = NULL
  /\ engDegraded = FALSE
  /\ engResponse = NULL
  /\ engPc = "idle"

InitBBox ==
  /\ iframeReady = TRUE
  /\ visiblePages = ViewerVisiblePages
  /\ pageInfoCache = ViewerPageInfo
  /\ bboxCoordOrigin \in Origins
  /\ bbox \in InputBoxes
  /\ \E p \in ListPositions : bboxListLength = p[1] /\ bboxIndexInList = p[2]
  /\ corrected = NULL
  /\ recorrected = NULL
  /\ rectOut = NULL
  /\ gpc = "input"
  /\ searchResults = <<>>
  /\ iframeOffsetX = 0 /\ iframeOffsetY = 0
  /\ overlayRoot = [clientWidth |-> 0, clientHeight |-> 0]
  /\ paragraphRects = <<>> /\ articleRects = <<>> /\ toRectCalls = <<>>
  /\ opc = "props"
  /\ HighlightIdle
  /\ AttachedOnce
  /\ ApiIdle
  /\ ChunkIdle
  /\ ConnectIdle
  /\ PagesIdle
  /\ EngineIdle

\* The page the call resolves to is known to the cache
PageKnown == PageNumberOf(bbox) \in DOMAIN pageInfoCache

CallVw == pageInfoCache[PageNumberOf(bbox)].viewportWidth
CallVh == pageInfoCache[PageNumberOf(bbox)].viewportHeight
CallCr == pageInfoCache[PageNumberOf(bbox)].canvasRect
CallIsContinuation == IsContinuation(bboxListLength, bboxIndexInList)

\* bboxToOverlayRect(bbox, meta, bboxListLength, bboxIndexInList); the model
\* also records nb (line 375) and what the same correction makes of nb.
CallBboxToOverlayRect ==
  /\ gpc = "input"
  /\ rectOut' = bboxToOverlayRect(pageInfoCache, bboxCoordOrigin, bbox,
                                  bboxListLength, bboxIndexInList)
  /\ corrected' = IF PageKnown
                  THEN CorrectBBox(bbox, CallVw, CallVh, CallIsContinuation)
                  ELSE NULL
  /\ recorrected' = IF PageKnown /\ corrected' # NULL
                    THEN CorrectBBox(corrected', CallVw, CallVh, CallIsContinuation)
                    ELSE NULL
  /\ gpc' = "done"
  /\ UNCHANGED <<apiVars, engVars, chunkVars, connVars, pageVars, instVars, bbox, bboxListLength, bboxIndexInList, compVars, hlVars, attVars>>

NextBBox == CallBboxToOverlayRect

SpecBBox == InitBBox /\ [][NextBBox]_vars

\* The input box after normalizeAndClampBBox alone ("clamped to the page")
CallClamped == normalizeAndClampBBox(bbox, CallVw, CallVh)

\* The call got as far as the continuation step (page known, box accepted)
CallCorrects == gpc = "done" /\ PageKnown /\ CallClamped # NULL

\* C1: a box that is not the first entry of a list of length > 1 and whose
\* page-clamped height exceeds 0.8 x page height comes out with its bottom
\* edge y1 = page_height x 0.94 (so <= page_height x 0.94), and the rect
\* returned ends at that line; the box y0=2, y1=838 on an 842pt page is
\* corrected to y1 = 791.48.
C1_ContinuationBottom ==
  (/\ CallCorrects
   /\ bboxListLength > 1 /\ bboxIndexInList > 0
   /\ (CallClamped.y1 - CallClamped.y0) * 10 > 8 * CallVh)
  => /\ corrected # NULL
     /\ corrected.y1 * 100 = CallVh * 94
     /\ rectOut # NULL
     /\ bboxCoordOrigin = "pdf-bottom-left" =>
          rectOut.topN + rectOut.heightN
            = CallCr.top * CallVh + corrected.y1 * CallCr.height
     /\ bboxCoordOrigin = "pymupdf-top-left" =>
          rectOut.topN = CallCr.top * CallVh + (CallVh - corrected.y1) * CallCr.height
     /\ (CallVh = 84200 /\ bbox.y0 = 200 /\ bbox.y1 = 83800) => corrected.y1 = 79148

C1_Witness ==
  /\ gpc = "done"
  /\ bbox.page = 5 /\ bbox.x0 = 0 /\ bbox.y0 = 200 /\ bbox.x1 = 40000 /\ bbox.y1 = 83800
  /\ bboxListLength = 2 /\ bboxIndexInList = 1
  /\ corrected # NULL /\ corrected.y1 = 79148
  /\ rectOut # NULL

\* C2 (as claimed): every box whose page-clamped width ratio and height ratio
\* are both >= 0.99 is rejected (null), whatever its position in the list.
C2_FullPageAlwaysNull ==
  (/\ CallCorrects
   /\ (CallClamped.x1 - CallClamped.x0) * 100 >= 99 * CallVw
   /\ (CallClamped.y1 - CallClamped.y0) * 100 >= 99 * CallVh)
  => rectOut = NULL

\* C3 (as claimed): the continuation correction never enlarges a box: the
\* corrected bottom edge is not below the page-clamped one and the top edge
\* is unchanged.
C3_NeverEnlarges ==
  CallCorrects =>
    /\ corrected # NULL
    /\ corrected.y1 <= CallClamped.y1
    /\ corrected.y0 = CallClamped.y0

\* C4 (as claimed): the correction is idempotent: applied to an
\* already-corrected box it returns that same box.
C4_Idempotent ==
  (gpc = "done" /\ PageKnown /\ corrected # NULL) => recorrected = corrected

\* The idempotence of C4 on every page at least 2pt high (holds)
IdempotentOnRealPages ==
  (gpc = "done" /\ PageKnown /\ corrected # NULL /\ CallVh >= 200)
  => recorrected = corrected

\* C6: every non-null rect lies inside the page's canvas rectangle, for
\* every input box and both coordinate origins.
C6_RectInsideCanvas ==
  (gpc = "done" /\ rectOut # NULL) =>
    /\ rectOut.leftN >= CallCr.left * CallVw
    /\ rectOut.topN >= CallCr.top * CallVh
    /\ rectOut.leftN + rectOut.widthN <= (CallCr.left + CallCr.width) * CallVw
    /\ rectOut.topN + rectOut.heightN <= (CallCr.top + CallCr.height) * CallVh

C6_Witness ==
  /\ gpc = "done" /\ rectOut # NULL
  /\ bboxCoordOrigin = "pymupdf-top-left"
  /\ bbox.x0 < 0 /\ bbox.x1 > CallVw /\ bbox.y0 > 0 /\ bbox.y1 > CallVh

\* Extent of the interval [a, b] (given in either order) inside [0, limit]
ClampedExtent(a, b, limit) ==
  Max(0, Min(limit, Max(a, b))) - Max(0, Min(limit, Min(a, b)))

\* C11: bboxToOverlayRect returns null for every box whose width or height,
\* after clamping to the page, is smaller than 1pt (boxes lying entirely
\* outside the page included); a box of at least 1pt in both dimensions
\* that is not a full-page box yields a rect, and every rect returned has
\* positive width and height.
C11_MinSize ==
  (gpc = "done" /\ PageKnown /\ bbox.finite) =>
    LET w == ClampedExtent(bbox.x0, bbox.x1, CallVw)
        h == ClampedExtent(bbox.y0, bbox.y1, CallVh)
        fullPage == w * 100 >= 99 * CallVw /\ h * 100 >= 99 * CallVh
    IN /\ (w < Pt(1) \/ h < Pt(1)) => rectOut = NULL
       /\ (w >= Pt(1) /\ h >= Pt(1) /\ ~fullPage) => rectOut # NULL
       /\ rectOut # NULL => (rectOut.widthN > 0 /\ rectOut.heightN > 0)

\* A box reaching 0.5pt into the page from its right edge is rejected
C11_Witness ==
  /\ gpc = "done" /\ PageKnown
  /\ bbox.x0 = Pt(595) - 50 /\ bbox.x1 = Pt(600)
  /\ ClampedExtent(bbox.y0, bbox.y1, CallVh) >= Pt(1)
  /\ ClampedExtent(bbox.x0, bbox.x1, CallVw) = 50
  /\ rectOut = NULL

\* ------------------------------------------------------------------------
\* PdfHighlightOverlay.vue: highlightData, toRect, articleRects,
\* paragraphRects
\* ------------------------------------------------------------------------
RECURSIVE Flatten(_)
Flatten(ss) == IF ss = <<>> THEN <<>> ELSE Head(ss) \o Flatten(Tail(ss))

\* highlightData line 179-180.  A NaN coordinate makes both comparisons false.
isValid(b) == b.hasPage /\ b.finite /\ b.x1 > b.x0 /\ b.y1 > b.y0

\* Indices (1-based) of the entries of a delivered list that pass isValid
ValidIndices(raw) ==
  SelectSeq([i \in 1..Len(raw) |-> i], LAMBDA i : isValid(raw[i]))

\* highlightData lines 175-216: one entry per result that keeps a box.  Each
\* kept box remembers its index in the delivered list (rawIndex).
highlightData(results) ==
  LET Entry(k) ==
        LET result == results[k]
            paraIdx == ValidIndices(result.bbox_info)
            artIdx == ValidIndices(result.article_bbox_info)
            paraBoxes == [i \in 1..Len(paraIdx) |->
                            [bbox |-> result.bbox_info[paraIdx[i]],
                             rawIndex |-> paraIdx[i]]]
            artBoxes == [i \in 1..Len(artIdx) |->
                            [bbox |-> result.article_bbox_info[artIdx[i]],
                             rawIndex |-> artIdx[i]]]
        IN [ paraBoxes |-> paraBoxes,
             articleBoxes |-> IF Len(artBoxes) > 0 THEN artBoxes ELSE paraBoxes,
             resultIndex |-> k - 1 ]
  IN SelectSeq([k \in 1..Len(results) |-> Entry(k)],
               LAMBDA d : Len(d.paraBoxes) > 0 \/ Len(d.articleBoxes) > 0)

\* renderPages lines 156-164
renderPages(visible) ==
  UNION {{visible[i] - 1, visible[i], visible[i] + 1} : i \in 1..Len(visible)}

\* toRect lines 225-266
toRect(cache, origin, offX, offY, root, b, resultIndex, listLength, indexInList) ==
  LET rect == bboxToOverlayRect(cache, origin, b, listLength, indexInList)
  IN IF rect = NULL THEN NULL
     ELSE
       LET leftN == rect.leftN + offX * rect.denX
           topN == rect.topN + offY * rect.denY
           rh == IF root.clientHeight = 0 THEN 800 ELSE root.clientHeight
           rw == IF root.clientWidth = 0 THEN 600 ELSE root.clientWidth
       IN IF \/ topN + rect.heightN < (0 - 50) * rect.denY
             \/ topN > (rh + 50) * rect.denY
             \/ leftN + rect.widthN < (0 - 50) * rect.denX
             \/ leftN > (rw + 50) * rect.denX
             \/ rect.widthN < 3 * rect.denX
             \/ rect.heightN < 3 * rect.denY
          THEN NULL
          ELSE [ leftN |-> leftN, topN |-> topN,
                 widthN |-> rect.widthN, heightN |-> rect.heightN,
                 denX |-> rect.denX, denY |-> rect.denY,
                 pageNumber |-> rect.pageNumber,
                 resultIndex |-> resultIndex ]

\* The toRect calls of one layer, in order: the loops of lines 273-292 and
\* 301-321 (layer is "paraBoxes" or "articleBoxes")
LayerCalls(results, visible, layer) ==
  LET hd == highlightData(results)
      CallsOf(d) ==
        LET boxes == d[layer]
            listLen == Len(boxes)
        IN SelectSeq([i \in 1..listLen |->
                        [ bbox |-> boxes[i].bbox,
                          rawIndex |-> boxes[i].rawIndex,
                          resultIndex |-> d.resultIndex,
                          listLength |-> listLen,
                          indexInList |-> i - 1 ]],
                     LAMBDA c : c.bbox.page \in renderPages(visible))
  IN Flatten([k \in 1..Len(hd) |-> CallsOf(hd[k])])

LayerRects_FailWhole(ready, cache, origin, offX, offY, root, results, visible, layer) ==
  IF ~ready THEN <<>>
  ELSE LET calls == LayerCalls(results, visible, layer)
           rects == [i \in 1..Len(calls) |->
                       toRect(cache, origin, offX, offY, root, calls[i].bbox,
                              calls[i].resultIndex, calls[i].listLength,
                              calls[i].indexInList)]
       IN IF \E i \in 1..Len(rects) : rects[i] = NULL THEN <<>> ELSE rects

\* articleRects (269-294) and paragraphRects (297-323)
LayerRects(ready, cache, origin, offX, offY, root, results, visible, layer) ==
  IF ~ready THEN <<>>
  ELSE LET calls == LayerCalls(results, visible, layer)
           rects == [i \in 1..Len(calls) |->
                       toRect(cache, origin, offX, offY, root, calls[i].bbox,
                              calls[i].resultIndex, calls[i].listLength,
                              calls[i].indexInList)]
       IN SelectSeq(rects, LAMBDA r : r # NULL)

ParagraphRectsOf(results) ==
  LayerRects(iframeReady, pageInfoCache, bboxCoordOrigin, iframeOffsetX,
             iframeOffsetY, overlayRoot, results, visiblePages, "paraBoxes")

ArticleRectsOf(results) ==
  LayerRects(iframeReady, pageInfoCache, bboxCoordOrigin, iframeOffsetX,
             iframeOffsetY, overlayRoot, results, visiblePages, "articleBoxes")

\* ------------------------------------------------------------------------
\* Specification SpecOverlay: the overlay renders the boxes of a search
\* result delivered by the parent page
\* ------------------------------------------------------------------------
\* Results in one delivered search-result list
MaxResults == 1

\* Paragraph boxes carried by one delivered search-result list
MaxBoxes == 2

Box(hasPage, page, hasPageIndex, pageIndex, x0, y0, x1, y1) ==
  [ hasPage |-> hasPage, page |-> page, hasPageIndex |-> hasPageIndex,
    page_index |-> pageIndex, finite |-> TRUE,
    x0 |-> x0, y0 |-> y0, x1 |-> x1, y1 |-> y1 ]

\* Boxes a result may deliver: a paragraph on page 4 or 5, a second
\* paragraph on page 4, a page-tall box on page 5, boxes with inverted
\* coordinates, boxes carrying page_index instead of page, a box with a NaN
\* coordinate, and a box on page 3, which the viewer has not rendered.
OverlayBoxes ==
  { Box(TRUE, 4, FALSE, 0, Pt(100), Pt(600), Pt(400), Pt(800)),
    Box(TRUE, 4, FALSE, 0, Pt(100), Pt(650), Pt(400), Pt(750)),
    Box(TRUE, 5, FALSE, 0, Pt(100), Pt(300), Pt(400), Pt(500)),
    Box(TRUE, 5, FALSE, 0, Pt(0), Pt(2), Pt(400), Pt(838)),
    Box(TRUE, 4, FALSE, 0, Pt(400), Pt(600), Pt(100), Pt(800)),
    Box(FALSE, 0, TRUE, 4, Pt(100), Pt(300), Pt(400), Pt(500)),
    [Box(TRUE, 5, FALSE, 0, Pt(100), Pt(300), Pt(400), Pt(500))
       EXCEPT !.finite = FALSE],
    Box(TRUE, 3, FALSE, 0, Pt(100), Pt(600), Pt(400), Pt(800)) }

RECURSIVE SeqsOfLen(_, _)
SeqsOfLen(S, n) ==
  IF n = 0 THEN {<<>>}
  ELSE {Append(q, x) : q \in SeqsOfLen(S, n - 1), x \in S}

ArticleLists ==
  { <<>>,
    << Box(TRUE, 4, FALSE, 0, Pt(60), Pt(560), Pt(540), Pt(800)),
       Box(TRUE, 5, FALSE, 0, Pt(60), Pt(57), Pt(540), Pt(816)) >>,
    << Box(TRUE, 3, FALSE, 0, Pt(60), Pt(560), Pt(540), Pt(800)),
       Box(TRUE, 5, FALSE, 0, Pt(60), Pt(57), Pt(540), Pt(816)) >> }

\* Search-result lists of at most n results carrying at most k paragraph
\* boxes between them
RECURSIVE ResultLists(_, _, _, _)
ResultLists(boxes, articles, n, k) ==
  IF n = 0 THEN {<<>>}
  ELSE {<<>>} \cup
       UNION { { <<[bbox_info |-> q, article_bbox_info |-> a]>> \o rest :
                   q \in SeqsOfLen(boxes, j), a \in articles,
                   rest \in ResultLists(boxes, articles, n - 1, k - j) } :
               j \in 0..k }

OverlayResultLists == ResultLists(OverlayBoxes, ArticleLists, MaxResults, MaxBoxes)

InitOverlay ==
  /\ iframeReady = TRUE
  /\ visiblePages = ViewerVisiblePages
  /\ pageInfoCache = ViewerPageInfo
  /\ bboxCoordOrigin = "pdf-bottom-left"
  /\ bbox = NULL /\ bboxListLength = 1 /\ bboxIndexInList = 0
  /\ corrected = NULL /\ recorrected = NULL /\ rectOut = NULL
  /\ gpc = "done"
  /\ searchResults \in OverlayResultLists
  /\ iframeOffsetX = 12 /\ iframeOffsetY = 8
  /\ overlayRoot = [clientWidth |-> 1200, clientHeight |-> 900]
  /\ paragraphRects = <<>> /\ articleRects = <<>> /\ toRectCalls = <<>>
  /\ opc = "props"
  /\ HighlightIdle
  /\ AttachedOnce
  /\ ApiIdle
  /\ ChunkIdle
  /\ ConnectIdle
  /\ PagesIdle
  /\ EngineIdle

\* The template evaluates the computed articleRects and paragraphRects
Render ==
  /\ opc = "props"
  /\ paragraphRects' = ParagraphRectsOf(searchResults)
  /\ articleRects' = ArticleRectsOf(searchResults)
  /\ toRectCalls' = IF iframeReady
                    THEN LayerCalls(searchResults, visiblePages, "paraBoxes")
                    ELSE <<>>
  /\ opc' = "rendered"
  /\ UNCHANGED <<apiVars, engVars, chunkVars, connVars, pageVars, instVars, geomVars, searchResults, iframeOffsetX, iframeOffsetY,
                 overlayRoot, hlVars, attVars>>

NextOverlay == Render

SpecOverlay == InitOverlay /\ [][NextOverlay]_vars

\* A delivered result list with one field of every box rewritten
MapBoxes(results, F(_)) ==
  [k \in 1..Len(results) |->
     [ bbox_info |-> [i \in 1..Len(results[k].bbox_info) |->
                        F(results[k].bbox_info[i])],
       article_bbox_info |-> [i \in 1..Len(results[k].article_bbox_info) |->
                                F(results[k].article_bbox_info[i])] ]]

InOrder(b) ==
  [b EXCEPT !.x0 = Min(b.x0, b.x1), !.x1 = Max(b.x0, b.x1),
            !.y0 = Min(b.y0, b.y1), !.y1 = Max(b.y0, b.y1)]

WithPage(b) ==
  IF ~b.hasPage /\ b.hasPageIndex
  THEN [b EXCEPT !.hasPage = TRUE, !.page = b.page_index + 1]
  ELSE b

\* C8 (as claimed): a box delivered with inverted coordinates is highlighted
\* with the same rect as the box with its coordinates in order.
C8_InvertedSameRect ==
  opc = "rendered" =>
    paragraphRects = ParagraphRectsOf(MapBoxes(searchResults, InOrder))

\* C9 (as claimed): a box without `page` that carries page_index = k is
\* highlighted on page k+1 exactly as the box with page = k+1 would be.
C9_PageIndexFallback ==
  opc = "rendered" =>
    paragraphRects = ParagraphRectsOf(MapBoxes(searchResults, WithPage))

\* C10 (as claimed): a box is treated as a continuation box exactly when the
\* delivered list has more than one entry and the box is not its first
\* entry; never when it lies on the chunk's first page, and always when it
\* lies on a later page.
C10_ContinuationIffNotFirstDelivered ==
  opc = "rendered" =>
    \A n \in 1..Len(toRectCalls) :
      LET c == toRectCalls[n]
          raw == searchResults[c.resultIndex + 1].bbox_info
          treated == IsContinuation(c.listLength, c.indexInList)
          firstPage == PageNumberOf(raw[1])
      IN /\ treated <=> (Len(raw) > 1 /\ c.rawIndex > 1)
         /\ PageNumberOf(c.bbox) = firstPage => ~treated
         /\ PageNumberOf(c.bbox) # firstPage => treated

\* An invalid box: a non-finite coordinate, or a page the viewer does not know
InvalidBox(b) == ~b.finite \/ PageNumberOf(b) \notin DOMAIN pageInfoCache

\* The rects a layer shows for a result that delivers box b alone
AloneRects(b, field, rects(_)) ==
  rects(<< [ bbox_info |-> IF field = "bbox_info" THEN <<b>> ELSE <<>>,
             article_bbox_info |->
               IF field = "article_bbox_info" THEN <<b>> ELSE <<>> ] >>)

\* Every box of a delivered list that is drawn when delivered alone has a
\* rect among `shown` (same result, page and horizontal extent), and
\* `shown` holds no rect of an invalid box
OthersStillShown(field, shown, rects(_)) ==
  \A k \in 1..Len(searchResults) :
    LET raw == searchResults[k][field]
        mine == SelectSeq(shown, LAMBDA r : r.resultIndex = k - 1)
        drawn == {i \in 1..Len(raw) : AloneRects(raw[i], field, rects) # <<>>}
        bad == {i \in 1..Len(raw) : InvalidBox(raw[i])}
    IN /\ \A i \in drawn :
            \E n \in 1..Len(mine) :
              LET a == AloneRects(raw[i], field, rects)[1]
              IN /\ mine[n].pageNumber = a.pageNumber
                 /\ mine[n].leftN = a.leftN
                 /\ mine[n].widthN = a.widthN
       /\ Len(mine) >= Cardinality(drawn)
       /\ bad \cap drawn = {}
       /\ field = "bbox_info" => Len(mine) <= Len(raw) - Cardinality(bad)

isValidBbox(b) == b.hasPage /\ b.finite /\ b.x1 > b.x0 /\ b.y1 > b.y0

\* applyHighlightsFromResults lines 176-213: the new value of highlights
applyHighlightsFromResults(results) ==
  LET Entry(k) ==
        [ bboxList |-> SelectSeq(results[k].bbox_info, isValidBbox),
          resultIndex |-> k - 1 ]
  IN SelectSeq([k \in 1..Len(results) |-> Entry(k)],
               LAMBDA h : Len(h.bboxList) > 0)

MinOf(S) == CHOOSE x \in S : \A y \in S : x <= y
MaxOf(S) == CHOOSE x \in S : \A y \in S : x >= y

\* mergeBboxesByPage lines 91-122, for boxes of one page
mergeBboxesByPage(boxes) ==
  LET I == 1..Len(boxes)
  IN [ x0 |-> MinOf({boxes[i].x0 : i \in I}),
       y0 |-> MinOf({boxes[i].y0 : i \in I}),
       x1 |-> MaxOf({boxes[i].x1 : i \in I}),
       y1 |-> MaxOf({boxes[i].y1 : i \in I}) ]

\* getHighlightRectsForPage lines 222-269.  left = leftN / denX and so on,
\* with denX = dims.widthPt and denY = dims.heightPt.
getHighlightRectsForPage(hls, cache, pageNo, displayWidth, displayHeight) ==
  IF pageNo \notin DOMAIN cache THEN <<>>
  ELSE
    LET dims == cache[pageNo]
        RectOf(hlData) ==
          LET pageBboxes == SelectSeq(hlData.bboxList, LAMBDA b : b.page = pageNo)
          IN IF Len(pageBboxes) = 0 THEN NULL
             ELSE
               LET mergedBbox == mergeBboxesByPage(pageBboxes)
                   widthN == (mergedBbox.x1 - mergedBbox.x0) * displayWidth
                   heightN == (mergedBbox.y1 - mergedBbox.y0) * displayHeight
               IN IF widthN < 2 * dims.widthPt \/ heightN < 2 * dims.heightPt
                  THEN NULL
                  ELSE [ leftN |-> mergedBbox.x0 * displayWidth,
                         topN |-> mergedBbox.y0 * displayHeight,
                         widthN |-> widthN,
                         heightN |-> heightN,
                         denX |-> dims.widthPt,
                         denY |-> dims.heightPt,
                         pageNumber |-> pageNo,
                         resultIndex |-> hlData.resultIndex ]
    IN SelectSeq([k \in 1..Len(hls) |-> RectOf(hls[k])], LAMBDA r : r # NULL)

\* What GET /pdf/{doc_id}/page/{page_no}/dimensions reports (width_pt,
\* height_pt) for the pages of the document shown
BackendPageDimensions ==
  (4 :> [widthPt |-> A4Width, heightPt |-> A4Height])
  @@ (5 :> [widthPt |-> A4Width, heightPt |-> A4Height])

\* ------------------------------------------------------------------------
\* Specification SpecHighlight: usePDFHighlight under its callers
\* ------------------------------------------------------------------------
\* Boxes as stored by the chunker (unclamped): inside the page, reaching
\* past the right and bottom edges, starting left of / above the page.
StoredBoxes ==
  { Box(TRUE, 4, FALSE, 0, Pt(100), Pt(600), Pt(400), Pt(800)),
    Box(TRUE, 5, FALSE, 0, Pt(300), Pt(700), Pt(600), Pt(900)),
    Box(TRUE, 4, FALSE, 0, 0 - Pt(5), 0 - Pt(5), Pt(200), Pt(100)),
    Box(TRUE, 5, FALSE, 0, Pt(400), Pt(600), Pt(100), Pt(800)) }

StoredResultLists == ResultLists(StoredBoxes, {<<>>}, MaxResults, MaxBoxes)

DisplaySizes == {<<893, 1263>>, <<595, 842>>}

InitHighlight ==
  /\ iframeReady = FALSE
  /\ visiblePages = <<>>
  /\ pageInfoCache = << >>
  /\ bboxCoordOrigin = "pdf-bottom-left"
  /\ bbox = NULL /\ bboxListLength = 1 /\ bboxIndexInList = 0
  /\ corrected = NULL /\ recorrected = NULL /\ rectOut = NULL
  /\ gpc = "done"
  /\ searchResults = <<>>
  /\ iframeOffsetX = 0 /\ iframeOffsetY = 0
  /\ overlayRoot = [clientWidth |-> 0, clientHeight |-> 0]
  /\ paragraphRects = <<>> /\ articleRects = <<>> /\ toRectCalls = <<>>
  /\ opc = "props"
  /\ HighlightIdle
  /\ AttachIdle /\ viewerLoaded = TRUE
  /\ ApiIdle
  /\ ChunkIdle
  /\ ConnectIdle
  /\ PagesIdle
  /\ EngineIdle

\* setAllPageDimensions(pages) with the backend's answer
SetAllPageDimensions ==
  /\ pageDimensionsCache' = BackendPageDimensions
  /\ UNCHANGED <<apiVars, engVars, chunkVars, connVars, pageVars, highlights, highlightRects, lastCall, instVars, geomVars,
                 compVars, attVars>>

\* applyHighlightsFromResults(searchResults)
ApplyHighlightsFromResults ==
  /\ \E results \in StoredResultLists :
        highlights' = applyHighlightsFromResults(results)
  /\ UNCHANGED <<apiVars, engVars, chunkVars, connVars, pageVars, pageDimensionsCache, highlightRects, lastCall, instVars,
                 geomVars, compVars, attVars>>

\* clearHighlights()
ClearHighlights ==
  /\ highlights' = <<>>
  /\ UNCHANGED <<apiVars, engVars, chunkVars, connVars, pageVars, pageDimensionsCache, highlightRects, lastCall, instVars,
                 geomVars, compVars, attVars>>

\* getHighlightRectsForPage(pageNo, displayWidth, displayHeight)
GetHighlightRectsForPage ==
  /\ \E pageNo \in {4, 5, 6}, size \in DisplaySizes :
        /\ highlightRects' = getHighlightRectsForPage(highlights,
                                pageDimensionsCache, pageNo, size[1], size[2])
        /\ lastCall' = [pageNo |-> pageNo, displayWidth |-> size[1],
                        displayHeight |-> size[2]]
  /\ UNCHANGED <<apiVars, engVars, chunkVars, connVars, pageVars, highlights, pageDimensionsCache, instVars, geomVars, compVars,
                 attVars>>

NextHighlight ==
  \/ SetAllPageDimensions
  \/ ApplyHighlightsFromResults
  \/ ClearHighlights
  \/ GetHighlightRectsForPage

SpecHighlight == InitHighlight /\ [][NextHighlight]_vars

\* C7 (as claimed): every rect returned by getHighlightRectsForPage lies
\* inside the displayed page image: 0 <= left, 0 <= top,
\* left + width <= displayWidth and top + height <= displayHeight.
C7_RectInsideImage ==
  lastCall # NULL =>
    \A n \in 1..Len(highlightRects) :
      LET r == highlightRects[n]
      IN /\ 0 <= r.leftN
         /\ 0 <= r.topN
         /\ r.leftN + r.widthN <= lastCall.displayWidth * r.denX
         /\ r.topN + r.heightN <= lastCall.displayHeight * r.denY

\* ------------------------------------------------------------------------
\* Page navigation of the page-image viewer: usePDFHighlight
\* (unnamed/part_004:270-319) under the viewer component (unnamed/part_009)
\* ------------------------------------------------------------------------
\* total_pages of the document shown
DocumentPages == 5

\* Page numbers a caller passes (goToPage argument, initialPage prop)
MaxPageArg == 7
PageArgs == 0..MaxPageArg

\* Results whose boxes lie on pages of the document
PagingBoxes ==
  { Box(TRUE, 2, FALSE, 0, Pt(100), Pt(600), Pt(400), Pt(800)),
    Box(TRUE, 4, FALSE, 0, Pt(100), Pt(600), Pt(400), Pt(800)),
    Box(TRUE, 5, FALSE, 0, Pt(400), Pt(600), Pt(100), Pt(800)) }

PagingResultLists == ResultLists(PagingBoxes, {<<>>}, MaxResults, MaxBoxes)

\* computed highlightedPages, part_004:273-281 (sorted ascending)
highlightedPages(hls) ==
  UNION { {hls[k].bboxList[i].page : i \in 1..Len(hls[k].bboxList)} :
          k \in 1..Len(hls) }

\* goToFirstHighlight, part_004:286-291: the new currentPage
goToFirstHighlight(hls, page) ==
  IF highlightedPages(hls) # {} THEN MinOf(highlightedPages(hls)) ELSE page

InitPaging ==
  /\ iframeReady = FALSE
  /\ visiblePages = <<>>
  /\ pageInfoCache = << >>
  /\ bboxCoordOrigin = "pdf-bottom-left"
  /\ bbox = NULL /\ bboxListLength = 1 /\ bboxIndexInList = 0
  /\ corrected = NULL /\ recorrected = NULL /\ rectOut = NULL
  /\ gpc = "done"
  /\ searchResults = <<>>
  /\ iframeOffsetX = 0 /\ iframeOffsetY = 0
  /\ overlayRoot = [clientWidth |-> 0, clientHeight |-> 0]
  /\ paragraphRects = <<>> /\ articleRects = <<>> /\ toRectCalls = <<>>
  /\ opc = "props"
  /\ HighlightIdle
  /\ AttachIdle /\ viewerLoaded = FALSE
  /\ ApiIdle
  /\ ChunkIdle
  /\ ConnectIdle
  /\ LawIdle
  /\ currentPage = 1
  /\ totalPages = 0
  /\ activeHighlightIndex = NoIndex
  /\ initialPage \in PageArgs
  /\ viewerMounted = FALSE
  /\ BooksIdle
  /\ UploadIdle
  /\ EngineIdle

OutsidePaging ==
  <<instVars, geomVars, compVars, attVars, apiVars, engVars, chunkVars,
    connVars, lawVars, bookVars, uploadVars, highlightRects, lastCall>>

\* onMounted, part_009:442-445, up to its first await
Mount ==
  /\ ~viewerMounted
  /\ viewerMounted' = TRUE
  /\ currentPage' = IF initialPage # 0 THEN initialPage ELSE currentPage
  /\ UNCHANGED <<totalPages, activeHighlightIndex, initialPage, highlights,
                 pageDimensionsCache, OutsidePaging>>

\* loadPageDimensions, part_009:303-320, when the response arrives
LoadPageDimensions ==
  /\ viewerMounted
  /\ pageDimensionsCache' = BackendPageDimensions
  /\ totalPages' = DocumentPages
  /\ UNCHANGED <<currentPage, activeHighlightIndex, initialPage, viewerMounted,
                 highlights, OutsidePaging>>

\* watch(props.searchResults), part_009:409-423, with the goToFirstHighlight
\* it leaves to nextTick
SearchResultsChange ==
  /\ viewerMounted
  /\ \E results \in PagingResultLists :
       IF Len(results) > 0
       THEN /\ highlights' = applyHighlightsFromResults(results)
            /\ currentPage' = goToFirstHighlight(highlights', currentPage)
            /\ UNCHANGED activeHighlightIndex
       ELSE /\ highlights' = <<>>
            /\ activeHighlightIndex' = NoIndex
            /\ UNCHANGED currentPage
  /\ UNCHANGED <<totalPages, initialPage, viewerMounted, pageDimensionsCache,
                 OutsidePaging>>

\* prevPage, part_009:346-350
PrevPage ==
  /\ viewerMounted
  /\ currentPage' = IF currentPage > 1 THEN currentPage - 1 ELSE currentPage
  /\ UNCHANGED <<totalPages, activeHighlightIndex, initialPage, viewerMounted,
                 highlights, pageDimensionsCache, OutsidePaging>>

\* nextPage, part_009:352-356
NextPage ==
  /\ viewerMounted
  /\ currentPage' = IF currentPage < totalPages THEN currentPage + 1
                    ELSE currentPage
  /\ UNCHANGED <<totalPages, activeHighlightIndex, initialPage, viewerMounted,
                 highlights, pageDimensionsCache, OutsidePaging>>

\* goToPage(pageNumber), part_004:316-319
GoToPage ==
  /\ viewerMounted
  /\ \E pageNumber \in PageArgs :
       currentPage' = IF pageNumber < 1 \/ pageNumber > totalPages
                      THEN currentPage ELSE pageNumber
  /\ UNCHANGED <<totalPages, activeHighlightIndex, initialPage, viewerMounted,
                 highlights, pageDimensionsCache, OutsidePaging>>

\* goToHighlight(resultIndex), part_004:296-303
GoToHighlight ==
  /\ viewerMounted
  /\ \E resultIndex \in 0..(MaxResults - 1) :
       LET found == {k \in 1..Len(highlights) :
                       highlights[k].resultIndex = resultIndex}
       IN IF found = {} \/ Len(highlights[MinOf(found)].bboxList) = 0
          THEN UNCHANGED <<activeHighlightIndex, currentPage>>
          ELSE /\ activeHighlightIndex' = resultIndex
               /\ currentPage' = highlights[MinOf(found)].bboxList[1].page
  /\ UNCHANGED <<totalPages, initialPage, viewerMounted, highlights,
                 pageDimensionsCache, OutsidePaging>>

\* The parent changes props.initialPage: watch, part_009:425-432
InitialPageChanges ==
  /\ viewerMounted
  /\ \E newPage \in PageArgs \ {initialPage} :
       /\ initialPage' = newPage
       /\ currentPage' = IF newPage # 0 /\ newPage >= 1 THEN newPage
                         ELSE currentPage
  /\ UNCHANGED <<totalPages, activeHighlightIndex, viewerMounted, highlights,
                 pageDimensionsCache, OutsidePaging>>

NextPaging ==
  \/ Mount
  \/ LoadPageDimensions
  \/ SearchResultsChange
  \/ PrevPage
  \/ NextPage
  \/ GoToPage
  \/ GoToHighlight
  \/ InitialPageChanges

SpecPaging == InitPaging /\ [][NextPaging]_vars

\* C26: once the page dimensions are loaded (totalPages >= 1), currentPage
\* stays within [1, totalPages] under prevPage, nextPage, goToPage,
\* goToHighlight, goToFirstHighlight and initialPage changes, and a
\* goToPage(n) with n outside [1, totalPages] leaves currentPage unchanged.
C26_CurrentPageInRange ==
  [][ (/\ totalPages >= 1 /\ totalPages' = totalPages
       /\ 1 <= currentPage /\ currentPage <= totalPages) =>
        (1 <= currentPage' /\ currentPage' <= totalPages) ]_vars

\* ------------------------------------------------------------------------
\* usePdfJsOverlay: attachToIframe, its poll timer, detach
\* ------------------------------------------------------------------------
maxRetries == 75

\* Ticks a timer that is never cleared is followed for
MaxTicks == 78

\* Successful tryAttach runs followed in one behaviour
MaxAttaches == 3

\* clearInterval(id): the timer with that id stops; clearInterval of an id
\* that is not live does nothing
clearInterval(timers, id) ==
  [c \in Calls |-> IF c = id THEN [timers[c] EXCEPT !.live = FALSE] ELSE timers[c]]

\* resolve(v) settles the call's promise once; later resolve calls are no-ops
resolve(ps, c, v) == IF ps[c] = "pending" THEN [ps EXCEPT ![c] = v] ELSE ps

\* tryAttach (lines 109-172) when the viewer is ready: a fresh scroll
\* handler and a fresh ResizeObserver are registered and stored over
\* whatever was held, four eventBus handlers are added, and refreshPageInfo
\* (197-257, which returns at once when _iframeRef is null) runs.
TryAttachSucceeds(iframeRefNow) ==
  LET id == eventBusHandlers + 1
  IN /\ iframeReady' = TRUE
     /\ _scrollHandler' = id
     /\ scrollListeners' = scrollListeners \cup {id}
     /\ _resizeObserver' = id
     /\ resizeObservers' = resizeObservers \cup {id}
     /\ eventBusHandlers' = eventBusHandlers + 1
     /\ pageInfoCache' = IF iframeRefNow THEN ViewerPageInfo ELSE pageInfoCache
     /\ visiblePages' = IF iframeRefNow THEN ViewerVisiblePages ELSE visiblePages

\* tryAttach when the viewer is not ready: returns false, touches nothing
TryAttachFails ==
  UNCHANGED <<iframeReady, _scrollHandler, scrollListeners, _resizeObserver,
              resizeObservers, eventBusHandlers, pageInfoCache, visiblePages>>

\* attachToIframe(iframe, onUpdate), lines 101-195, up to its return: what
\* the call does to the instance
AttachCall ==
  /\ nCalls < MaxCalls
  /\ LET c == nCalls + 1
     IN /\ nCalls' = c
        /\ _iframeRef' = TRUE
        /\ _onUpdateCallback' = TRUE
        /\ attempts' = [attempts EXCEPT ![c] = 1]
        /\ IF viewerLoaded
           THEN /\ TryAttachSucceeds(TRUE)
                /\ promises' = [promises EXCEPT ![c] = "true"]
                /\ UNCHANGED <<_pollInterval, intervals>>
           ELSE /\ TryAttachFails
                /\ promises' = [promises EXCEPT ![c] = "pending"]
                /\ _pollInterval' = c
                /\ intervals' = [intervals EXCEPT ![c] = [live |-> TRUE, retryCount |-> 0]]

\* attachToIframe called by itself
AttachToIframe ==
  /\ AttachCall
  /\ UNCHANGED <<apiVars, engVars, chunkVars, connVars, pageVars, viewerLoaded, bboxCoordOrigin, geomVars, compVars, hlVars>>

\* One firing of the setInterval callback of call c, lines 181-193
PollTick(c) ==
  /\ intervals[c].live
  /\ intervals[c].retryCount < MaxTicks
  /\ viewerLoaded => eventBusHandlers < MaxAttaches
  /\ attempts' = [attempts EXCEPT ![c] = @ + 1]
  /\ LET counted == [intervals EXCEPT ![c].retryCount = @ + 1]
     IN IF viewerLoaded
        THEN /\ TryAttachSucceeds(_iframeRef)
             /\ intervals' = clearInterval(counted, _pollInterval)
             /\ _pollInterval' = 0
             /\ promises' = resolve(promises, c, "true")
        ELSE /\ TryAttachFails
             /\ IF counted[c].retryCount >= maxRetries
                THEN /\ intervals' = clearInterval(counted, _pollInterval)
                     /\ _pollInterval' = 0
                     /\ promises' = resolve(promises, c, "false")
                ELSE /\ intervals' = counted
                     /\ UNCHANGED <<_pollInterval, promises>>
  /\ UNCHANGED <<apiVars, engVars, chunkVars, connVars, pageVars, _iframeRef, _onUpdateCallback, viewerLoaded, nCalls,
                 bboxCoordOrigin, geomVars, compVars, hlVars>>

\* detach(), lines 440-464
Detach ==
  /\ intervals' = clearInterval(intervals, _pollInterval)
  /\ _pollInterval' = 0
  /\ IF _scrollHandler # 0 /\ _iframeRef
     THEN /\ scrollListeners' = scrollListeners \ {_scrollHandler}
          /\ _scrollHandler' = 0
     ELSE UNCHANGED <<scrollListeners, _scrollHandler>>
  /\ resizeObservers' = resizeObservers \ {_resizeObserver}
  /\ _resizeObserver' = 0
  /\ _iframeRef' = FALSE
  /\ _onUpdateCallback' = FALSE
  /\ iframeReady' = FALSE
  /\ pageInfoCache' = << >>
  /\ visiblePages' = <<>>
  /\ UNCHANGED <<apiVars, engVars, chunkVars, connVars, pageVars, viewerLoaded, promises, attempts, eventBusHandlers, nCalls,
                 bboxCoordOrigin, geomVars, compVars, hlVars>>

\* PDF.js finishes loading the document inside the iframe
ViewerLoads ==
  /\ ~viewerLoaded
  /\ viewerLoaded' = TRUE
  /\ UNCHANGED <<apiVars, engVars, chunkVars, connVars, pageVars, instVars, geomVars, compVars, hlVars, _scrollHandler,
                 _resizeObserver, _pollInterval, _iframeRef, _onUpdateCallback,
                 intervals, promises, attempts, scrollListeners, resizeObservers,
                 eventBusHandlers, nCalls>>

InitAttach ==
  /\ iframeReady = FALSE
  /\ visiblePages = <<>>
  /\ pageInfoCache = << >>
  /\ bboxCoordOrigin = "pdf-bottom-left"
  /\ bbox = NULL /\ bboxListLength = 1 /\ bboxIndexInList = 0
  /\ corrected = NULL /\ recorrected = NULL /\ rectOut = NULL
  /\ gpc = "done"
  /\ searchResults = <<>>
  /\ iframeOffsetX = 0 /\ iframeOffsetY = 0
  /\ overlayRoot = [clientWidth |-> 0, clientHeight |-> 0]
  /\ paragraphRects = <<>> /\ articleRects = <<>> /\ toRectCalls = <<>>
  /\ opc = "props"
  /\ highlights = <<>> /\ pageDimensionsCache = << >>
  /\ highlightRects = <<>> /\ lastCall = NULL
  /\ AttachIdle
  /\ ApiIdle
  /\ ChunkIdle
  /\ ConnectIdle
  /\ PagesIdle
  /\ EngineIdle
  /\ viewerLoaded = FALSE

NextAttach ==
  \/ AttachToIframe
  \/ \E c \in Calls : PollTick(c)
  \/ Detach
  \/ ViewerLoads

SpecAttach == InitAttach /\ [][NextAttach]_vars

\* C5 (as claimed): each attachToIframe call makes at most 76 attach
\* attempts (one immediate, then at most 75 poll ticks) and then stops
\* polling for good: once its promise is settled its timer is no longer
\* scheduled; under every interleaving with detach() and other
\* attachToIframe calls.
C5_BoundedRetry ==
  \A c \in Calls :
    /\ attempts[c] <= 76
    /\ promises[c] \in {"true", "false"} => ~intervals[c].live

\* Nothing of the instance is left: no poll timer scheduled, not ready,
\* both caches empty
Released ==
  /\ \A c \in Calls : ~intervals[c].live
  /\ ~iframeReady
  /\ pageInfoCache = << >>
  /\ visiblePages = <<>>

\* C20: detach() releases everything: after any sequence of attachToIframe
\* and detach calls, when detach() returns no poll timer of the instance is
\* scheduled, iframeReady is false and pageInfoCache and visiblePages are
\* empty, and this stays so until attachToIframe is called again.
C20_DetachReleases ==
  [][ /\ Detach => Released'
      /\ (Released /\ nCalls' = nCalls) => Released' ]_vars

\* C21: under any sequence of attachToIframe and detach calls at most one
\* scroll listener and at most one ResizeObserver of the instance are live,
\* and detach() removes every listener a successful attach registered
\* (scroll listener, ResizeObserver, eventBus handlers).
C21_ListenersReleased ==
  [][ /\ Cardinality(scrollListeners') <= 1
      /\ Cardinality(resizeObservers') <= 1
      /\ Detach => /\ scrollListeners' = {}
                   /\ resizeObservers' = {}
                   /\ eventBusHandlers' = 0 ]_vars

\* ------------------------------------------------------------------------
\* PdfHighlightOverlay.connectToIframe (PdfHighlightOverlay.vue:326-351)
\* ------------------------------------------------------------------------
\* Where the iframe lies relative to the overlay root
IframeLeft == 12
IframeTop == 8

\* updateIframeOffset(iframe), lines 353-362
updateIframeOffset ==
  /\ iframeOffsetX' = IframeLeft
  /\ iframeOffsetY' = IframeTop

\* The iframe as connectToIframe finds it: missing, still loading, or
\* readyState "complete"
Iframes ==
  { [exists |-> FALSE, complete |-> FALSE],
    [exists |-> TRUE, complete |-> FALSE],
    [exists |-> TRUE, complete |-> TRUE] }

InitConnect ==
  /\ iframeReady = FALSE
  /\ visiblePages = <<>>
  /\ pageInfoCache = << >>
  /\ bboxCoordOrigin = "pdf-bottom-left"
  /\ bbox = NULL /\ bboxListLength = 1 /\ bboxIndexInList = 0
  /\ corrected = NULL /\ recorrected = NULL /\ rectOut = NULL
  /\ gpc = "done"
  /\ searchResults = <<>>
  /\ iframeOffsetX = 0 /\ iframeOffsetY = 0
  /\ overlayRoot = [clientWidth |-> 1200, clientHeight |-> 900]
  /\ paragraphRects = <<>> /\ articleRects = <<>> /\ toRectCalls = <<>>
  /\ opc = "props"
  /\ HighlightIdle
  /\ AttachIdle
  /\ viewerLoaded \in BOOLEAN
  /\ ApiIdle
  /\ ChunkIdle
  /\ ConnectIdle
  /\ PagesIdle
  /\ EngineIdle

OutsideConnect ==
  <<apiVars, engVars, chunkVars, pageVars, hlVars, geomVars, bboxCoordOrigin,
    searchResults, overlayRoot, paragraphRects, articleRects, toRectCalls,
    opc>>

\* connectToIframe(), lines 326-351, up to its first await or its return
ConnectToIframe ==
  /\ connIframe = NULL
  /\ \E iframe \in Iframes :
       /\ connIframe' = iframe
       /\ IF ~iframe.exists
          THEN UNCHANGED <<iframeOffsetX, iframeOffsetY, connLoadListener,
                           connTimer, connOnLoad>>
          ELSE /\ updateIframeOffset
               /\ IF iframe.complete
                  THEN /\ connOnLoad' = [connOnLoad EXCEPT !["direct"] = "sleeping"]
                       /\ UNCHANGED <<connLoadListener, connTimer>>
                  ELSE /\ connLoadListener' = TRUE
                       /\ connTimer' = TRUE
                       /\ UNCHANGED connOnLoad
  /\ UNCHANGED <<instVars, attVars, viewerLoaded, OutsideConnect>>

\* onLoad up to its first await (the 500 ms sleep), line 337
OnLoadStarts(run) == [connOnLoad EXCEPT ![run] = "sleeping"]

\* The iframe's load event: the { once: true } listener runs onLoad and is
\* removed; the fallback timer stays scheduled
IframeLoadEvent ==
  /\ connLoadListener
  /\ connLoadListener' = FALSE
  /\ connOnLoad' = OnLoadStarts("load")
  /\ UNCHANGED <<connIframe, connTimer, iframeOffsetX, iframeOffsetY,
                 instVars, attVars, viewerLoaded, OutsideConnect>>

\* setTimeout(onLoad, 1500) fires; the load listener stays registered
FallbackTimerFires ==
  /\ connTimer
  /\ connTimer' = FALSE
  /\ connOnLoad' = OnLoadStarts("timer")
  /\ UNCHANGED <<connIframe, connLoadListener, iframeOffsetX, iframeOffsetY,
                 instVars, attVars, viewerLoaded, OutsideConnect>>

\* onLoad after its sleep, lines 338-341: updateIframeOffset, then the
\* attachToIframe call
OnLoadResumes(run) ==
  /\ connOnLoad[run] = "sleeping"
  /\ connOnLoad' = [connOnLoad EXCEPT ![run] = "done"]
  /\ updateIframeOffset
  /\ AttachCall
  /\ UNCHANGED <<connIframe, connLoadListener, connTimer, viewerLoaded,
                 OutsideConnect>>

NextConnect ==
  \/ ConnectToIframe
  \/ IframeLoadEvent
  \/ FallbackTimerFires
  \/ \E run \in OnLoadRuns : OnLoadResumes(run)
  \/ ViewerLoads
  \/ \E c \in Calls : PollTick(c)

SpecConnect == InitConnect /\ [][NextConnect]_vars

\* C22: one connectToIframe call leads to at most one attachToIframe call,
\* whichever of the load event and the fallback timer fires, and when both
\* fire.
C22_OneAttachPerConnect ==
  connIframe # NULL => nCalls <= 1

\* ------------------------------------------------------------------------
\* Constitution search page, pages/law/index.vue
\* ------------------------------------------------------------------------
\* Searches issued in one behaviour
MaxRequests == 3

Queries == {"q1", "q2"}
PageCountries == {"GH", "NG"}

\* What the search endpoint answers to a request: the foreign results are
\* those of the target country
ResponseTo(request) ==
  [ korean_results |-> << [query |-> request.query] >>,
    foreign_results |-> << [country |-> request.target_country,
                            query |-> request.query] >> ]

\* computed foreignResults, lines 512-519
foreignResults ==
  IF pageSearchResults = NULL THEN <<>>
  ELSE LET OfSelected(r) == r.country = selectedCountry
       IN SelectSeq(pageSearchResults.foreign_results, OfSelected)

\* computed koreanResults, lines 508-510
koreanResults ==
  IF pageSearchResults = NULL THEN <<>> ELSE pageSearchResults.korean_results

\* handleSearch, lines 543-563, up to its await: with the query and the
\* country the refs hold when it is called
handleSearch(q, country) ==
  IF q = ""
  THEN /\ error' = "enter a query"
       /\ UNCHANGED <<isSearching, hasSearched, requests>>
  ELSE /\ isSearching' = TRUE
       /\ error' = NULL
       /\ hasSearched' = TRUE
       /\ requests' = Append(requests, [query |-> q, target_country |-> country,
                                        status |-> "inflight"])

InitLaw ==
  /\ iframeReady = FALSE
  /\ visiblePages = <<>>
  /\ pageInfoCache = << >>
  /\ bboxCoordOrigin = "pdf-bottom-left"
  /\ bbox = NULL /\ bboxListLength = 1 /\ bboxIndexInList = 0
  /\ corrected = NULL /\ recorrected = NULL /\ rectOut = NULL
  /\ gpc = "done"
  /\ searchResults = <<>>
  /\ iframeOffsetX = 0 /\ iframeOffsetY = 0
  /\ overlayRoot = [clientWidth |-> 0, clientHeight |-> 0]
  /\ paragraphRects = <<>> /\ articleRects = <<>> /\ toRectCalls = <<>>
  /\ opc = "props"
  /\ HighlightIdle
  /\ AttachIdle /\ viewerLoaded = FALSE
  /\ ApiIdle
  /\ ChunkIdle
  /\ ConnectIdle
  /\ PagesIdle
  /\ EngineIdle

OutsideLaw ==
  <<instVars, geomVars, compVars, hlVars, attVars, apiVars, engVars,
    chunkVars, connVars, viewerVars, bookVars, uploadVars>>

\* The user types into the search box (v-model="query"); the input is
\* disabled while isSearching (lines 162, 234)
TypeQuery ==
  /\ ~isSearching
  /\ \E q \in Queries \cup {""} : query' = q
  /\ UNCHANGED <<selectedCountry, hasSearched, isSearching, pageSearchResults,
                 error, todayHistory, requests, OutsideLaw>>

\* Enter in the search box or a click on the search button (lines 159-167,
\* 231-239), both disabled while isSearching
SubmitSearch ==
  /\ ~isSearching
  /\ Len(requests) < MaxRequests
  /\ handleSearch(query, selectedCountry)
  /\ UNCHANGED <<query, selectedCountry, pageSearchResults, todayHistory,
                 OutsideLaw>>

\* loadHistory(item, idx), lines 580-584: a click on a sidebar entry
LoadHistory ==
  /\ Len(requests) < MaxRequests
  /\ \E n \in 1..Len(todayHistory) :
       /\ query' = todayHistory[n].query
       /\ handleSearch(todayHistory[n].query, selectedCountry)
  /\ UNCHANGED <<selectedCountry, pageSearchResults, todayHistory, OutsideLaw>>

\* selectExample(example), lines 575-578: the examples are on the start
\* screen only (v-if="!hasSearched")
SelectExample ==
  /\ ~hasSearched
  /\ Len(requests) < MaxRequests
  /\ \E example \in Queries :
       /\ query' = example
       /\ handleSearch(example, selectedCountry)
  /\ UNCHANGED <<selectedCountry, pageSearchResults, todayHistory, OutsideLaw>>

\* selectCountry(countryCode), lines 590-595: the country grid is on the
\* results screen only (v-else of "!hasSearched")
SelectCountry ==
  /\ hasSearched
  /\ Len(requests) < MaxRequests
  /\ \E countryCode \in PageCountries :
       /\ selectedCountry' = countryCode
       /\ IF hasSearched
          THEN handleSearch(query, countryCode)
          ELSE UNCHANGED <<isSearching, error, hasSearched, requests>>
  /\ UNCHANGED <<query, pageSearchResults, todayHistory, OutsideLaw>>

\* $fetch of request n resolves: handleSearch resumes, lines 565-566 and
\* the finally block
ResponseArrives(n) ==
  /\ n <= Len(requests)
  /\ requests[n].status = "inflight"
  /\ requests' = [requests EXCEPT ![n].status = "ok"]
  /\ pageSearchResults' = ResponseTo(requests[n])
  /\ todayHistory' = << [query |-> query] >> \o todayHistory
  /\ isSearching' = FALSE
  /\ UNCHANGED <<query, selectedCountry, hasSearched, error, OutsideLaw>>

\* $fetch of request n rejects: the catch block, lines 567-569, and the
\* finally block
RequestFails(n) ==
  /\ n <= Len(requests)
  /\ requests[n].status = "inflight"
  /\ requests' = [requests EXCEPT ![n].status = "failed"]
  /\ error' = "search failed"
  /\ isSearching' = FALSE
  /\ UNCHANGED <<query, selectedCountry, hasSearched, pageSearchResults,
                 todayHistory, OutsideLaw>>

NextLaw ==
  \/ TypeQuery
  \/ SubmitSearch
  \/ LoadHistory
  \/ SelectExample
  \/ SelectCountry
  \/ \E n \in 1..MaxRequests : ResponseArrives(n)
  \/ \E n \in 1..MaxRequests : RequestFails(n)

SpecLaw == InitLaw /\ [][NextLaw]_vars

InFlight == {n \in 1..Len(requests) : requests[n].status = "inflight"}

\* C23: when the country is changed or the query re-submitted while an
\* earlier request is in flight, then once all requests have completed
\* (the last one issued with a response) searchResults holds the response
\* of the request issued last, and the foreign results displayed are those
\* for the selected country.
C23_LatestResponseShown ==
  (/\ requests # <<>>
   /\ InFlight = {}
   /\ requests[Len(requests)].status = "ok") =>
    /\ pageSearchResults = ResponseTo(requests[Len(requests)])
    /\ foreignResults # <<>>
    /\ \A i \in 1..Len(foreignResults) :
         foreignResults[i].country = selectedCountry

\* C24: isSearching is true exactly when at least one search request is in
\* flight.
C24_SearchingIffInFlight ==
  isSearching <=> InFlight # {}

\* The error box is inside the start screen, lines 127 and 205-211
ErrorVisible == ~hasSearched /\ error # NULL

\* The results screen with the "no results" placeholders, lines 215,
\* 374-380 and 435-441
EmptyResultShown ==
  hasSearched /\ koreanResults = <<>> /\ foreignResults = <<>>

\* C25: when a search request fails, the error message is visible in the
\* state the failure leaves, and the failed search is not displayed as an
\* ordinary empty result list.
C25_FailureShown ==
  [][ \A n \in 1..Len(requests) :
        (requests[n].status = "inflight" /\ Len(requests') = Len(requests)
           /\ requests'[n].status = "failed") =>
          (ErrorVisible' /\ ~EmptyResultShown') ]_vars

\* ------------------------------------------------------------------------
\* useConstitutionAPI.comparativeSearch (unnamed/part_003:27-59) and the
\* comparative-search endpoint it posts to
\* ------------------------------------------------------------------------
\* A params object is a function from the keys the caller supplied
NoKeys == [k \in {} |-> k]

Given(params, key) == key \in DOMAIN params

\* params[key] ?? fallback
OrDefault(params, key, fallback) ==
  IF Given(params, key) THEN params[key] ELSE fallback

\* { key: params[key] } as serialised: an undefined value is left out
Sent(params, key) == IF Given(params, key) THEN key :> params[key] ELSE NoKeys

DefaultKoreanTopK == 5
DefaultKoreanScoreThresholdPct == 20
DefaultForeignPerCountry == 8
DefaultForeignPoolSize == 50

\* The body of the POST, lines 42-51
RequestBody(params) ==
  [ query |-> params.query,
    korean_top_k |-> OrDefault(params, "korean_top_k", DefaultKoreanTopK),
    korean_score_threshold |->
      OrDefault(params, "korean_score_threshold", DefaultKoreanScoreThresholdPct),
    foreign_per_country |->
      OrDefault(params, "foreign_per_country", DefaultForeignPerCountry),
    foreign_pool_size |->
      OrDefault(params, "foreign_pool_size", DefaultForeignPoolSize),
    generate_summary |-> OrDefault(params, "generate_summary", TRUE) ]
  @@ Sent(params, "target_country")
  @@ Sent(params, "cursor_map")

\* ---- Comparative Assembly (backend, modelled from the specification) ----
\* The ranked candidates the search engine finds per foreign country for
\* the query; they do not change between requests (a static pool)
Candidates ==
  ("GH" :> <<101, 102, 103, 104, 105, 106, 107, 108, 109, 110, 111, 112>>)
  @@ ("NG" :> <<201, 202>>)

Countries == DOMAIN Candidates

\* The candidate pool of a country: its first pool_size candidates
CandidatePool(country, pool_size) ==
  SubSeq(Candidates[country], 1, Min(pool_size, Len(Candidates[country])))

\* The cursor recorded for a country in cursor_map (default 0)
CursorOf(body, country) ==
  IF Given(body, "cursor_map") /\ country \in DOMAIN body.cursor_map
  THEN body.cursor_map[country]
  ELSE 0

SliceFrom_PageNumber(pool, cursor, per_country) ==
  [i \in 1..Max(0, Min(per_country, Len(pool) - cursor * per_country)) |->
     pool[cursor * per_country + i]]

\* per_country results starting at the cursor offset; what remains when the
\* pool ends first
SliceFrom(pool, cursor, per_country) ==
  [i \in 1..Max(0, Min(per_country, Len(pool) - cursor)) |-> pool[cursor + i]]

\* The target foreign entities: the one named, or all known ones
TargetsOf(body) ==
  IF Given(body, "target_country") THEN {body.target_country} ELSE Countries

\* foreign_results of comparative_search
comparative_search(body) ==
  [country \in TargetsOf(body) |->
     SliceFrom(CandidatePool(country, body.foreign_pool_size),
               CursorOf(body, country), body.foreign_per_country)]

\* ------------------------------------------------------------------------
\* Specification SpecCompare: comparativeSearch calls for one query
\* ------------------------------------------------------------------------
\* Largest cursor a caller sends
MaxCursor == 4

CursorMaps == UNION {[S -> 0..MaxCursor] : S \in SUBSET Countries}

Optional(key, values) == {NoKeys} \cup {key :> v : v \in values}

\* Calls that leave out or supply each optional parameter
OptionCalls ==
  { ("query" :> "q") @@ k @@ p @@ n @@ g @@ t @@ c :
      k \in Optional("korean_top_k", {3}),
      p \in Optional("foreign_per_country", {3}),
      n \in Optional("foreign_pool_size", {5}),
      g \in Optional("generate_summary", {FALSE}),
      t \in Optional("target_country", {"GH"}),
      c \in Optional("cursor_map", {("GH" :> 3) @@ ("NG" :> 1)}) }

\* "Show more" calls: every cursor map, page size and pool size
PagingCalls ==
  { ("query" :> "q") @@ p @@ n @@ t @@ c :
      p \in Optional("foreign_per_country", {2, 3}),
      n \in Optional("foreign_pool_size", {5}),
      t \in Optional("target_country", {"GH"}),
      c \in Optional("cursor_map", CursorMaps) }

CallParams == OptionCalls \cup PagingCalls

FetchFailed == [error |-> TRUE]

InitCompare ==
  /\ iframeReady = FALSE
  /\ visiblePages = <<>>
  /\ pageInfoCache = << >>
  /\ bboxCoordOrigin = "pdf-bottom-left"
  /\ bbox = NULL /\ bboxListLength = 1 /\ bboxIndexInList = 0
  /\ corrected = NULL /\ recorrected = NULL /\ rectOut = NULL
  /\ gpc = "done"
  /\ searchResults = <<>>
  /\ iframeOffsetX = 0 /\ iframeOffsetY = 0
  /\ overlayRoot = [clientWidth |-> 0, clientHeight |-> 0]
  /\ paragraphRects = <<>> /\ articleRects = <<>> /\ toRectCalls = <<>>
  /\ opc = "props"
  /\ HighlightIdle
  /\ AttachIdle /\ viewerLoaded = FALSE
  /\ ApiIdle
  /\ ChunkIdle
  /\ ConnectIdle
  /\ PagesIdle
  /\ EngineIdle

\* comparativeSearch(params) when $fetch resolves
ComparativeSearch ==
  /\ \E params \in CallParams :
       /\ cmpParams' = params
       /\ cmpBody' = RequestBody(params)
       /\ cmpResponse' = comparative_search(RequestBody(params))
  /\ UNCHANGED <<instVars, geomVars, compVars, hlVars, attVars, engVars,
               chunkVars, connVars, pageVars>>

\* comparativeSearch(params) when $fetch rejects: the error is logged and
\* rethrown (lines 55-58)
ComparativeSearchFails ==
  /\ \E params \in CallParams :
       /\ cmpParams' = params
       /\ cmpBody' = RequestBody(params)
       /\ cmpResponse' = FetchFailed
  /\ UNCHANGED <<instVars, geomVars, compVars, hlVars, attVars, engVars,
               chunkVars, connVars, pageVars>>

NextCompare == ComparativeSearch \/ ComparativeSearchFails

SpecCompare == InitCompare /\ [][NextCompare]_vars

Items(seq) == {seq[i] : i \in 1..Len(seq)}

Answered == cmpResponse # NULL /\ cmpResponse # FetchFailed

\* C13: for a static pool, the items returned for a country at cursor q are
\* the pool's items q+1 .. q+per_country (the cursor counts the items
\* returned before, it is no page number): they overlap neither the first q
\* items of the pool nor the page returned at cursor q - per_country; the
\* page of a country depends on that country's cursor alone; and a slice
\* past the end of the pool yields what remains, possibly nothing.
C13_Pagination ==
  Answered =>
    \A country \in DOMAIN cmpResponse :
      LET page == cmpResponse[country]
          per == cmpBody.foreign_per_country
          pool == CandidatePool(country, cmpBody.foreign_pool_size)
          q == CursorOf(cmpBody, country)
          earlier == {pool[i] : i \in 1..Min(q, Len(pool))}
          before == ("cursor_map" :> (country :> (q - per))) @@ cmpBody
      IN /\ Items(page) \cap earlier = {}
         /\ Len(page) = Cardinality(Items(page))
         /\ Len(page) = Max(0, Min(per, Len(pool) - q))
         /\ \A i \in 1..Len(page) : page[i] = pool[q + i]
         /\ q >= per =>
              /\ Items(comparative_search(before)[country]) \cap Items(page) = {}
              /\ Len(comparative_search(before)[country]) = per \/ page = <<>>
         /\ comparative_search(("cursor_map" :> (country :> q)) @@ cmpBody)[country]
              = page

\* The second page of GH (cursor 3, three per country) after a first page
\* at cursor 0, while NG's cursor is elsewhere
C13_Witness ==
  /\ Answered
  /\ Given(cmpBody, "cursor_map")
  /\ DOMAIN cmpBody.cursor_map = {"GH", "NG"}
  /\ cmpBody.cursor_map["GH"] = 3 /\ cmpBody.cursor_map["NG"] = 1
  /\ cmpBody.foreign_per_country = 3
  /\ ~Given(cmpBody, "target_country")
  /\ cmpResponse["GH"] = <<104, 105, 106>>
  /\ cmpResponse["NG"] = <<202>>

\* ------------------------------------------------------------------------
\* Hybrid Search Engine (backend, modelled from the specification, sections
\* 4.4, 5 and 7): search(query_text, top_k, filters, use_reranking)
\* ------------------------------------------------------------------------
\* The candidate chunks of the query, in original candidate order
CandidateOrder == <<1, 2, 3>>

Chunks == Items(CandidateOrder)

\* Retries after a ServiceUnavailable ("retries once")
RetryLimit == 1

\* alpha = 0.7, in tenths
AlphaTenths == 7

\* The value a response carries where no rerank_score was assigned
NoScore == 0 - 1

\* Min-max normalisation of a score per chunk: (score - min) / (max - min)
\* as the fraction num / den, and 1.0 for all when max = min
MinMax(score, among) ==
  LET lo == MinOf({score[c] : c \in among})
      hi == MaxOf({score[c] : c \in among})
  IN [c \in among |->
        IF hi = lo THEN [num |-> 1, den |-> 1]
        ELSE [num |-> score[c] - lo, den |-> hi - lo]]

FusedScores_BothAlways(index, useVector, useKeyword) ==
  LET nv == MinMax(index.vector, Chunks)
      nk == MinMax(index.keyword, Chunks)
  IN [c \in Chunks |->
        AlphaTenths * nv[c].num * nk[1].den
          + (10 - AlphaTenths) * nk[c].num * nv[1].den]

\* Step (3): score_fused = alpha * normalize(vector_score)
\*                       + (1 - alpha) * normalize(keyword_score),
\* kept as its numerator over the common denominator 10 * dv * dk.  With
\* one branch only (degraded fusion) it is that branch's normalised score.
FusedScores(index, useVector, useKeyword) ==
  LET nv == MinMax(index.vector, Chunks)
      nk == MinMax(index.keyword, Chunks)
      dv == nv[1].den
      dk == nk[1].den
  IN [c \in Chunks |->
        IF useVector /\ useKeyword
        THEN AlphaTenths * nv[c].num * dk + (10 - AlphaTenths) * nk[c].num * dv
        ELSE IF useVector THEN nv[c].num
        ELSE nk[c].num]

SortedDesc_Unstable(seq, score) ==
  LET Rank(c) == Cardinality({d \in Items(seq) :
                    score[d] > score[c] \/ (score[d] = score[c] /\ d > c)})
  IN [i \in 1..Len(seq) |-> CHOOSE c \in Items(seq) : Rank(c) = i - 1]

\* Stable sort by score descending: ties keep the order they have in seq
RECURSIVE SortedDesc(_, _)
SortedDesc(seq, score) ==
  IF seq = <<>> THEN <<>>
  ELSE LET x == seq[Len(seq)]
           sorted == SortedDesc(SubSeq(seq, 1, Len(seq) - 1), score)
           k == Cardinality({i \in 1..Len(sorted) : score[sorted[i]] >= score[x]})
       IN SubSeq(sorted, 1, k) \o <<x>> \o SubSeq(sorted, k + 1, Len(sorted))

normalized_display_score_OverMax(ranked, score) ==
  LET hi == MaxOf({score[d] : d \in Items(ranked)} \cup {1})
  IN [c \in Items(ranked) |-> [num |-> score[c], den |-> hi]]

\* normalized_display_score over the returned result set
normalized_display_score(ranked, score) == MinMax(score, Items(ranked))

\* The response for a ranking: its top_k, each with its display score
Respond(ranking, score, rerank, top_k, degraded, reranked) ==
  LET returned == SubSeq(ranking, 1, Min(top_k, Len(ranking)))
      display == normalized_display_score(returned, score)
  IN [ status |-> "ok",
       results |-> [i \in 1..Len(returned) |->
                      [ chunk_id |-> returned[i],
                        score |-> score[returned[i]],
                        rerank_score |-> rerank[returned[i]],
                        display_score |-> display[returned[i]] ]],
       degraded |-> degraded,
       partial |-> degraded \/ reranked = "timeout",
       reranked |-> reranked = "yes" ]

SearchUnavailable == [status |-> "SearchUnavailable"]

\* An external call (Adapter query, keyword query, reranker)
CallStarted == [status |-> "running", attempts |-> 1, failures |-> 0]

CallReturns(call) == [call EXCEPT !.status = "ok"]

CallRaises_RetryAgain(call) ==
  [call EXCEPT !.failures = @ + 1, !.status = "backoff"]

\* ServiceUnavailable: retried once after a backoff, then surfaced
CallRaises(call) ==
  [call EXCEPT !.failures = @ + 1,
               !.status = IF call.attempts <= RetryLimit
                          THEN "backoff" ELSE "unavailable"]

CallRetries(call) == [call EXCEPT !.status = "running", !.attempts = @ + 1]

CallTimesOut(call) == [call EXCEPT !.status = "timeout"]

Settled(call) == call.status \in {"ok", "timeout", "unavailable"}

NoRerank == [c \in Chunks |-> NoScore]

\* ------------------------------------------------------------------------
\* Specification SpecSearch: one search request with its external calls
\* ------------------------------------------------------------------------
VectorProfiles == { <<3, 2, 1>>, <<1, 1, 1>>, <<0, 2, 2>> }
KeywordProfiles == { <<1, 2, 3>>, <<0, 0, 0>>, <<2, 0, 1>> }
RerankProfiles == { <<1, 2, 3>>, <<2, 2, 2>>, <<3, 1, 3>> }

SearchRequests == [top_k : {2, 3}, use_reranking : BOOLEAN]

InitSearch ==
  /\ iframeReady = FALSE
  /\ visiblePages = <<>>
  /\ pageInfoCache = << >>
  /\ bboxCoordOrigin = "pdf-bottom-left"
  /\ bbox = NULL /\ bboxListLength = 1 /\ bboxIndexInList = 0
  /\ corrected = NULL /\ recorrected = NULL /\ rectOut = NULL
  /\ gpc = "done"
  /\ searchResults = <<>>
  /\ iframeOffsetX = 0 /\ iframeOffsetY = 0
  /\ overlayRoot = [clientWidth |-> 0, clientHeight |-> 0]
  /\ paragraphRects = <<>> /\ articleRects = <<>> /\ toRectCalls = <<>>
  /\ opc = "props"
  /\ HighlightIdle
  /\ AttachIdle /\ viewerLoaded = FALSE
  /\ ApiIdle
  /\ ChunkIdle
  /\ ConnectIdle
  /\ PagesIdle
  /\ engRequest \in SearchRequests
  /\ engIndex \in [vector : VectorProfiles, keyword : KeywordProfiles]
  /\ engVector = CallIdle /\ engKeyword = CallIdle /\ engRerank = CallIdle
  /\ engFused = NULL
  /\ engDegraded = FALSE
  /\ engResponse = NULL
  /\ engPc = "idle"

OutsideEngine == <<instVars, geomVars, compVars, hlVars, attVars, apiVars,
                   chunkVars, connVars, pageVars>>

\* search() starts: steps (1) and (2) run concurrently
StartSearch ==
  /\ engPc = "idle"
  /\ engVector' = CallStarted
  /\ engKeyword' = CallStarted
  /\ engPc' = "subqueries"
  /\ UNCHANGED <<engRequest, engIndex, engRerank, engFused, engDegraded,
                 engResponse, OutsideEngine>>

\* One of the two sub-queries moves: F is what happens to the call
SubQueryStep(branch, from, F(_)) ==
  /\ engPc = "subqueries"
  /\ IF branch = "vector"
     THEN /\ engVector.status = from
          /\ engVector' = F(engVector)
          /\ UNCHANGED engKeyword
     ELSE /\ engKeyword.status = from
          /\ engKeyword' = F(engKeyword)
          /\ UNCHANGED engVector
  /\ UNCHANGED <<engRequest, engIndex, engRerank, engFused, engDegraded,
                 engResponse, engPc, OutsideEngine>>

SubQueryReturns(branch) == SubQueryStep(branch, "running", CallReturns)
SubQueryRaises(branch) == SubQueryStep(branch, "running", CallRaises)
SubQueryRetries(branch) == SubQueryStep(branch, "backoff", CallRetries)
SubQueryTimesOut(branch) == SubQueryStep(branch, "running", CallTimesOut)

\* The join: both sub-queries have settled.  A branch that stayed
\* unavailable, or no branch left to fuse, ends the request; otherwise the
\* scores are fused (from one branch only when the other timed out) and the
\* response is built, or the reranker is called.
Join ==
  /\ engPc = "subqueries"
  /\ Settled(engVector) /\ Settled(engKeyword)
  /\ LET useVector == engVector.status = "ok"
         useKeyword == engKeyword.status = "ok"
         degraded == ~(useVector /\ useKeyword)
         fused == FusedScores(engIndex, useVector, useKeyword)
     IN IF \/ "unavailable" \in {engVector.status, engKeyword.status}
           \/ ~(useVector \/ useKeyword)
        THEN /\ engResponse' = SearchUnavailable
             /\ engPc' = "done"
             /\ UNCHANGED <<engFused, engDegraded, engRerank>>
        ELSE /\ engFused' = fused
             /\ engDegraded' = degraded
             /\ IF engRequest.use_reranking
                THEN /\ engRerank' = CallStarted
                     /\ engPc' = "reranking"
                     /\ UNCHANGED engResponse
                ELSE /\ engResponse' =
                          Respond(SortedDesc(CandidateOrder, fused), fused,
                                  NoRerank, engRequest.top_k, degraded, "no")
                     /\ engPc' = "done"
                     /\ UNCHANGED engRerank
  /\ UNCHANGED <<engRequest, engIndex, engVector, engKeyword, OutsideEngine>>

\* Step (4): the reranker returns a relevance score per candidate
RerankReturns ==
  /\ engPc = "reranking" /\ engRerank.status = "running"
  /\ \E profile \in RerankProfiles :
       LET rerank == [c \in Chunks |-> profile[c]]
       IN engResponse' =
            Respond(SortedDesc(SortedDesc(CandidateOrder, engFused), rerank),
                    rerank, rerank, engRequest.top_k, engDegraded, "yes")
  /\ engRerank' = CallReturns(engRerank)
  /\ engPc' = "done"
  /\ UNCHANGED <<engRequest, engIndex, engVector, engKeyword, engFused,
                 engDegraded, OutsideEngine>>

\* The reranker raises ServiceUnavailable
RerankRaises ==
  /\ engPc = "reranking" /\ engRerank.status = "running"
  /\ engRerank' = CallRaises(engRerank)
  /\ IF engRerank'.status = "unavailable"
     THEN engResponse' = SearchUnavailable /\ engPc' = "done"
     ELSE UNCHANGED <<engResponse, engPc>>
  /\ UNCHANGED <<engRequest, engIndex, engVector, engKeyword, engFused,
                 engDegraded, OutsideEngine>>

RerankRetries ==
  /\ engPc = "reranking" /\ engRerank.status = "backoff"
  /\ engRerank' = CallRetries(engRerank)
  /\ UNCHANGED <<engRequest, engIndex, engVector, engKeyword, engFused,
                 engDegraded, engResponse, engPc, OutsideEngine>>

\* The reranker call times out: fall back to fused-score ordering
RerankTimesOut ==
  /\ engPc = "reranking" /\ engRerank.status = "running"
  /\ engRerank' = CallTimesOut(engRerank)
  /\ engResponse' =
       Respond(SortedDesc(CandidateOrder, engFused), engFused, NoRerank,
               engRequest.top_k, engDegraded, "timeout")
  /\ engPc' = "done"
  /\ UNCHANGED <<engRequest, engIndex, engVector, engKeyword, engFused,
                 engDegraded, OutsideEngine>>

NextSearch ==
  \/ StartSearch
  \/ \E branch \in {"vector", "keyword"} :
       \/ SubQueryReturns(branch)
       \/ SubQueryRaises(branch)
       \/ SubQueryRetries(branch)
       \/ SubQueryTimesOut(branch)
  \/ Join
  \/ RerankReturns
  \/ RerankRaises
  \/ RerankRetries
  \/ RerankTimesOut

SpecSearch == InitSearch /\ [][NextSearch]_vars

Replied == engPc = "done" /\ engResponse # NULL /\ engResponse.status = "ok"

ExternalCalls == {engVector, engKeyword, engRerank}

\* C14: in every non-empty result set returned by search, each result's
\* normalized_display_score is (score - min) / (max - min) over the
\* returned set and lies in [0, 1]; when max = min every result, the top
\* one included, gets 1.0.
C14_DisplayScore ==
  (Replied /\ Len(engResponse.results) > 0) =>
    LET rs == engResponse.results
        I == 1..Len(rs)
        lo == CHOOSE x \in {rs[i].score : i \in I} : \A i \in I : x <= rs[i].score
        hi == CHOOSE x \in {rs[i].score : i \in I} : \A i \in I : x >= rs[i].score
    IN \A i \in I :
         LET d == rs[i].display_score
         IN /\ d.den > 0 /\ 0 <= d.num /\ d.num <= d.den
            /\ hi # lo => d.num * (hi - lo) = (rs[i].score - lo) * d.den
            /\ hi = lo => d.num = d.den

\* A reranked response whose scores are 1, 2, 3: display scores 1, 1/2, 0
C14_Witness ==
  /\ Replied
  /\ Len(engResponse.results) = 3
  /\ engResponse.results[1].display_score = [num |-> 2, den |-> 2]
  /\ engResponse.results[2].display_score = [num |-> 1, den |-> 2]
  /\ engResponse.results[3].display_score = [num |-> 0, den |-> 2]

\* C15: a call (Adapter query, keyword query, reranker) that raises
\* ServiceUnavailable is retried exactly once; when the retry raises too
\* the request ends with SearchUnavailable: no request in which a call
\* failed twice returns a result list.
C15_RetryOnce ==
  /\ \A call \in ExternalCalls :
       /\ call.attempts <= 2
       /\ call.failures <= call.attempts
       /\ call.status = "backoff" => (call.attempts = 1 /\ call.failures = 1)
       /\ (call.failures = 1 /\ call.status # "backoff") => call.attempts = 2
       /\ call.failures = 2 <=> call.status = "unavailable"
  /\ engPc = "done" =>
       /\ (\E call \in ExternalCalls : call.failures >= 2)
            => engResponse = SearchUnavailable
       /\ engResponse = SearchUnavailable => "results" \notin DOMAIN engResponse

\* The vector query raised twice while the keyword query succeeded
C15_Witness ==
  /\ engPc = "done"
  /\ engVector.failures = 2 /\ engVector.attempts = 2
  /\ engKeyword.status = "ok"
  /\ engResponse = SearchUnavailable

\* The same ranking of the chunks by two scores
SameRanking(a, b) ==
  \A c, d \in Chunks : (a[c] >= a[d]) <=> (b[c] >= b[d])

\* C16: the two sub-queries run concurrently and are joined before fusion;
\* when exactly one of them times out (the other succeeding) the request
\* still succeeds, ranked from the successful branch only, and the response
\* reports the degradation; a response built from both branches never
\* carries the degraded flag.
C16_DegradedFusion ==
  LET timedOut == {b \in {"vector", "keyword"} :
                     (IF b = "vector" THEN engVector ELSE engKeyword).status
                       = "timeout"}
      bothOk == engVector.status = "ok" /\ engKeyword.status = "ok"
      survivor == IF engVector.status = "ok" THEN engIndex.vector
                  ELSE engIndex.keyword
  IN /\ engPc = "subqueries" =>
          (engVector.status # "idle" /\ engKeyword.status # "idle")
     /\ engFused # NULL => (Settled(engVector) /\ Settled(engKeyword))
     /\ (engFused # NULL /\ Cardinality(timedOut) = 1) =>
          /\ engDegraded
          /\ SameRanking(engFused, survivor)
     /\ (engPc = "done" /\ Cardinality(timedOut) = 1
           /\ "ok" \in {engVector.status, engKeyword.status}
           /\ engRerank.status # "unavailable") => Replied
     /\ Replied =>
          /\ engResponse.degraded <=> Cardinality(timedOut) = 1
          /\ bothOk => ~engResponse.degraded
          /\ ~bothOk => engResponse.partial

\* The keyword query timed out while the vector query ran on and succeeded
C16_Witness ==
  /\ Replied
  /\ engVector.status = "ok" /\ engKeyword.status = "timeout"
  /\ engIndex.vector = <<3, 2, 1>> /\ engIndex.keyword = <<1, 2, 3>>
  /\ ~engRequest.use_reranking
  /\ engResponse.degraded
  /\ engResponse.results[1].chunk_id = 1

\* C17: with use_reranking set, a reranker timeout still returns results:
\* the top_k by fused score descending, ties in original candidate order,
\* flagged as a partial ranking and never presented as reranked (no
\* rerank_score, reranked = false).
C17_RerankTimeoutFallback ==
  /\ (engPc = "done" /\ engRerank.status = "timeout") =>
       /\ Replied
       /\ engRequest.use_reranking
       /\ engResponse.partial /\ ~engResponse.reranked
       /\ LET rs == engResponse.results
              shown == {rs[i].chunk_id : i \in 1..Len(rs)}
              Before(c, d) == \/ engFused[c] > engFused[d]
                              \/ (engFused[c] = engFused[d] /\ c < d)
          IN /\ Len(rs) = Min(engRequest.top_k, Len(CandidateOrder))
             /\ \A i \in 1..Len(rs) :
                  /\ rs[i].rerank_score = NoScore
                  /\ rs[i].score = engFused[rs[i].chunk_id]
             /\ \A i, j \in 1..Len(rs) :
                  i < j => Before(rs[i].chunk_id, rs[j].chunk_id)
             /\ \A c \in shown, d \in Chunks \ shown : Before(c, d)
  /\ (Replied /\ engResponse.reranked) => engRerank.status = "ok"

\* Fused scores tie for chunks 2 and 3 and the reranker times out
C17_Witness ==
  /\ engPc = "done" /\ engRerank.status = "timeout"
  /\ Replied
  /\ engFused[2] = engFused[3]
  /\ engRequest.top_k = 3
  /\ engResponse.results[2].chunk_id = 2
  /\ engResponse.results[3].chunk_id = 3

\* C19: comparativeSearch applies its documented defaults: with the
\* parameter left out the body carries korean_top_k = 3,
\* foreign_per_country = 3, foreign_pool_size = 50 and generate_summary =
\* true, and a cursor_map the caller supplies is sent unchanged.
C19_DocumentedDefaults ==
  cmpBody # NULL =>
    /\ ~Given(cmpParams, "korean_top_k") => cmpBody.korean_top_k = 3
    /\ ~Given(cmpParams, "foreign_per_country") =>
         cmpBody.foreign_per_country = 3
    /\ ~Given(cmpParams, "foreign_pool_size") => cmpBody.foreign_pool_size = 50
    /\ ~Given(cmpParams, "generate_summary") => cmpBody.generate_summary = TRUE
    /\ Given(cmpParams, "cursor_map") =>
         /\ Given(cmpBody, "cursor_map")
         /\ cmpBody.cursor_map = cmpParams.cursor_map

\* ------------------------------------------------------------------------
\* Chunker: chunk(nodes, target_tokens, overlap_tokens, min_tokens).
\* The nodes are the leaves of the structural tree in depth-first order,
\* each given by its number of tokens; a token is its position in the
\* document, counted from 1 over the leaves in that order.
\* ------------------------------------------------------------------------

RECURSIVE SumTo(_, _)
SumTo(nodes, k) == IF k = 0 THEN 0 ELSE SumTo(nodes, k - 1) + nodes[k]

\* First and last token of leaf k
NodeFirst(nodes, k) == SumTo(nodes, k - 1) + 1
NodeLast(nodes, k) == SumTo(nodes, k)

\* The leaf's tokens first..last split into windows of target_tokens, each
\* window after the first starting overlap_tokens before the end of the one
\* before it; a leaf of at most target_tokens is one window
RECURSIVE Windows(_, _, _, _)
Windows(first, last, target_tokens, overlap_tokens) ==
  IF last - first + 1 <= target_tokens
  THEN << [first |-> first, last |-> last] >>
  ELSE << [first |-> first, last |-> first + target_tokens - 1] >>
         \o Windows(first + target_tokens - overlap_tokens, last,
                    target_tokens, overlap_tokens)

Size(w) == w.last - w.first + 1

MergeTail_EmitStandalone(windows, min_tokens) ==
  [i \in 1..Len(windows) |->
     [first |-> windows[i].first, last |-> windows[i].last, merged |-> FALSE]]

\* Edge-case policy: the tail fragment of a leaf, when shorter than
\* min_tokens, is merged into the chunk before it.  Node containment is a
\* hard invariant, so the chunk before it is one of the same leaf: a leaf
\* that is a single window stays a chunk of its own.
MergeTail(windows, min_tokens) ==
  LET n == Len(windows)
  IN IF n >= 2 /\ Size(windows[n]) < min_tokens
     THEN [i \in 1..(n - 1) |->
             [first |-> windows[i].first,
              last |-> IF i = n - 1 THEN windows[n].last ELSE windows[i].last,
              merged |-> i = n - 1]]
     ELSE [i \in 1..n |->
             [first |-> windows[i].first, last |-> windows[i].last,
              merged |-> FALSE]]

\* The chunks of leaf k: structural path of the leaf, with a suffix index
\* when the leaf was split (0 when it was not)
ChunksOfNode(nodes, k, target_tokens, overlap_tokens, min_tokens) ==
  LET spans == MergeTail(Windows(NodeFirst(nodes, k), NodeLast(nodes, k),
                                 target_tokens, overlap_tokens), min_tokens)
  IN [i \in 1..Len(spans) |->
        [structural_path |-> k,
         suffix |-> IF Len(spans) > 1 THEN i ELSE 0,
         first |-> spans[i].first,
         last |-> spans[i].last,
         token_count |-> Size(spans[i]),
         merged |-> spans[i].merged]]

RECURSIVE ChunksUpTo(_, _, _, _, _)
ChunksUpTo(nodes, k, target_tokens, overlap_tokens, min_tokens) ==
  IF k = 0 THEN <<>>
  ELSE ChunksUpTo(nodes, k - 1, target_tokens, overlap_tokens, min_tokens)
         \o ChunksOfNode(nodes, k, target_tokens, overlap_tokens, min_tokens)

chunk(nodes, target_tokens, overlap_tokens, min_tokens) ==
  ChunksUpTo(nodes, Len(nodes), target_tokens, overlap_tokens, min_tokens)

\* ---- SpecChunk: one chunk call on leaves of up to MaxNodeTokens tokens
MaxNodes == 2
MaxNodeTokens == 12

\* Token budgets scaled down from 512 / 64 / 100, overlap < min < target
Budgets ==
  { [target_tokens |-> 5, overlap_tokens |-> 1, min_tokens |-> 3],
    [target_tokens |-> 6, overlap_tokens |-> 1, min_tokens |-> 4],
    [target_tokens |-> 6, overlap_tokens |-> 2, min_tokens |-> 3] }

NodeLists ==
  UNION {[1..n -> 1..MaxNodeTokens] : n \in 1..MaxNodes}

InitChunk ==
  /\ iframeReady = FALSE
  /\ visiblePages = <<>>
  /\ pageInfoCache = << >>
  /\ bboxCoordOrigin = "pdf-bottom-left"
  /\ bbox = NULL /\ bboxListLength = 1 /\ bboxIndexInList = 0
  /\ corrected = NULL /\ recorrected = NULL /\ rectOut = NULL
  /\ gpc = "done"
  /\ searchResults = <<>>
  /\ iframeOffsetX = 0 /\ iframeOffsetY = 0
  /\ overlayRoot = [clientWidth |-> 0, clientHeight |-> 0]
  /\ paragraphRects = <<>> /\ articleRects = <<>> /\ toRectCalls = <<>>
  /\ opc = "props"
  /\ HighlightIdle
  /\ AttachIdle /\ viewerLoaded = FALSE
  /\ ApiIdle
  /\ EngineIdle
  /\ chkInput \in [nodes : NodeLists, budget : Budgets]
  /\ chkOutput = NULL
  /\ ConnectIdle
  /\ PagesIdle

Chunk ==
  /\ chkOutput = NULL
  /\ chkOutput' = [chunks |-> chunk(chkInput.nodes,
                                     chkInput.budget.target_tokens,
                                     chkInput.budget.overlap_tokens,
                                     chkInput.budget.min_tokens)]
  /\ UNCHANGED <<chkInput, instVars, geomVars, compVars, hlVars, attVars,
                 apiVars, engVars, connVars, pageVars>>

NextChunk == Chunk

SpecChunk == InitChunk /\ [][NextChunk]_vars

\* Chunk c lies within leaf k
Within(c, k) ==
  /\ NodeFirst(chkInput.nodes, k) <= c.first
  /\ c.last <= NodeLast(chkInput.nodes, k)

\* Chunk c holds tokens of leaf k
Touches(c, k) ==
  /\ c.first <= NodeLast(chkInput.nodes, k)
  /\ NodeFirst(chkInput.nodes, k) <= c.last

Leaves == 1..Len(chkInput.nodes)

ShortLeaf(c) ==
  /\ chkInput.nodes[c.structural_path] < chkInput.budget.min_tokens
  /\ c.first = NodeFirst(chkInput.nodes, c.structural_path)
  /\ c.last = NodeLast(chkInput.nodes, c.structural_path)

limit == 12

\* Books the library holds under the current filters (response.total)
CatalogueSize == 30

\* loadBooks calls issued in one behaviour
MaxLoads == 3

SortOrders == {"recent", "title", "author"}

\* The page GET /library/books answers for limit and offset, lines 362-373:
\* the books are numbered 1..CatalogueSize in the order the endpoint lists
\* them
BooksPage(off) ==
  [ data |-> [i \in 1..Max(0, Min(limit, CatalogueSize - off)) |-> off + i],
    total |-> CatalogueSize ]

\* Keys of the local sort, lines 384-390: the position of a book's title
\* (author) in localeCompare order, both different from the endpoint's order
TitleRank(b) == (b * 7) % 31
AuthorRank(b) == (b * 11) % 31

\* Array.prototype.sort with the comparators of lines 385-389: stable,
\* ascending
SortedBy(seq, rank) ==
  SortedDesc(seq, [b \in Items(seq) |-> 0 - rank[b]])

\* loadBooks up to its await, lines 353-373
loadBooks(more, off) ==
  /\ IF more
     THEN /\ loadingMore' = TRUE
          /\ offset' = off
          /\ UNCHANGED loading
     ELSE /\ loading' = TRUE
          /\ offset' = 0
          /\ UNCHANGED loadingMore
  /\ bookRequests' = Append(bookRequests,
                            [offset |-> IF more THEN off ELSE 0,
                             loadMore |-> more, status |-> "inflight"])

InitBooks ==
  /\ iframeReady = FALSE
  /\ visiblePages = <<>>
  /\ pageInfoCache = << >>
  /\ bboxCoordOrigin = "pdf-bottom-left"
  /\ bbox = NULL /\ bboxListLength = 1 /\ bboxIndexInList = 0
  /\ corrected = NULL /\ recorrected = NULL /\ rectOut = NULL
  /\ gpc = "done"
  /\ searchResults = <<>>
  /\ iframeOffsetX = 0 /\ iframeOffsetY = 0
  /\ overlayRoot = [clientWidth |-> 0, clientHeight |-> 0]
  /\ paragraphRects = <<>> /\ articleRects = <<>> /\ toRectCalls = <<>>
  /\ opc = "props"
  /\ HighlightIdle
  /\ AttachIdle /\ viewerLoaded = FALSE
  /\ ApiIdle
  /\ ChunkIdle
  /\ ConnectIdle
  /\ PagesIdle
  /\ EngineIdle

OutsideBooks ==
  <<instVars, geomVars, compVars, hlVars, attVars, apiVars, engVars, chunkVars,
    connVars, lawVars, viewerVars, uploadVars>>

\* onMounted (lines 430-432), the category filter's @change (line 23) and the
\* debounced author filter (lines 400-405): loadBooks()
Reload ==
  /\ Len(bookRequests) < MaxLoads
  /\ loadBooks(FALSE, 0)
  /\ UNCHANGED <<books, totalBooks, sortBy, OutsideBooks>>

\* The sort select, v-model sortBy with @change="loadBooks()", line 52
ChangeSort ==
  /\ Len(bookRequests) < MaxLoads
  /\ \E s \in SortOrders \ {sortBy} : sortBy' = s
  /\ loadBooks(FALSE, 0)
  /\ UNCHANGED <<books, totalBooks, OutsideBooks>>

\* The Load More button, lines 179-182: shown while books.length <
\* totalBooks, disabled while loadingMore.  loadMore, lines 407-410.
LoadMore ==
  /\ Len(bookRequests) < MaxLoads
  /\ Len(books) < totalBooks
  /\ ~loadingMore
  /\ loadBooks(TRUE, offset + limit)
  /\ UNCHANGED <<books, totalBooks, sortBy, OutsideBooks>>

\* A request is answered with success, lines 375-391 and 394-397
BooksResponseArrives(n) ==
  /\ n <= Len(bookRequests)
  /\ bookRequests[n].status = "inflight"
  /\ LET request == bookRequests[n]
         response == BooksPage(request.offset)
         shown == IF request.loadMore THEN books \o response.data
                  ELSE response.data
         byTitle == [b \in Items(shown) |-> TitleRank(b)]
         byAuthor == [b \in Items(shown) |-> AuthorRank(b)]
     IN /\ books' = IF sortBy = "title" THEN SortedBy(shown, byTitle)
                    ELSE IF sortBy = "author" THEN SortedBy(shown, byAuthor)
                    ELSE shown
        /\ totalBooks' = response.total
  /\ loading' = FALSE
  /\ loadingMore' = FALSE
  /\ bookRequests' = [bookRequests EXCEPT ![n].status = "done"]
  /\ UNCHANGED <<offset, sortBy, OutsideBooks>>

\* A request is rejected, or answered with success false: only the finally
\* block runs, lines 392-397
BooksRequestFails(n) ==
  /\ n <= Len(bookRequests)
  /\ bookRequests[n].status = "inflight"
  /\ loading' = FALSE
  /\ loadingMore' = FALSE
  /\ bookRequests' = [bookRequests EXCEPT ![n].status = "failed"]
  /\ UNCHANGED <<books, totalBooks, offset, sortBy, OutsideBooks>>

NextBooks ==
  \/ Reload
  \/ ChangeSort
  \/ LoadMore
  \/ \E n \in 1..MaxLoads : BooksResponseArrives(n)
  \/ \E n \in 1..MaxLoads : BooksRequestFails(n)

SpecBooks == InitBooks /\ [][NextBooks]_vars

BooksInFlight ==
  {n \in 1..Len(bookRequests) : bookRequests[n].status = "inflight"}

\* C27: with no request outstanding and more books to show, the next
\* loadMore asks for the page that follows the books shown (offset + limit is
\* the number of books shown), after failed load-more requests too, and the
\* books shown are the first books of the catalogue, none skipped and none
\* twice.
C27_NextPageFollows ==
  (BooksInFlight = {} /\ Len(books) < totalBooks) =>
    /\ offset + limit = Len(books)
    /\ Items(books) = 1..Len(books)

\* ------------------------------------------------------------------------
\* Upload page, unnamed/part_005
\* ------------------------------------------------------------------------
\* uploadBook calls in one behaviour
MaxUploads == 2

\* The five steps as uploadBook sets them up, lines 476-484
FreshSteps == <<"processing", "pending", "pending", "pending", "pending">>

\* Delays of the five nested setTimeout calls in seconds, lines 513-536
StepDelay == <<1, 2, 2, 3, 2>>

SuccessMessage == "uploaded and indexed"
ErrorMessage == "upload failed"

InitUpload ==
  /\ iframeReady = FALSE
  /\ visiblePages = <<>>
  /\ pageInfoCache = << >>
  /\ bboxCoordOrigin = "pdf-bottom-left"
  /\ bbox = NULL /\ bboxListLength = 1 /\ bboxIndexInList = 0
  /\ corrected = NULL /\ recorrected = NULL /\ rectOut = NULL
  /\ gpc = "done"
  /\ searchResults = <<>>
  /\ iframeOffsetX = 0 /\ iframeOffsetY = 0
  /\ overlayRoot = [clientWidth |-> 0, clientHeight |-> 0]
  /\ paragraphRects = <<>> /\ articleRects = <<>> /\ toRectCalls = <<>>
  /\ opc = "props"
  /\ HighlightIdle
  /\ AttachIdle /\ viewerLoaded = FALSE
  /\ ApiIdle
  /\ ChunkIdle
  /\ ConnectIdle
  /\ PagesIdle
  /\ EngineIdle


OutsideUpload ==
  <<instVars, geomVars, compVars, hlVars, attVars, apiVars, engVars, chunkVars,
    connVars, lawVars, viewerVars, bookVars>>

\* handleFileSelect and handleDrop, lines 436-458: the title is filled from
\* the file name when it is empty
SelectFile ==
  /\ ~selectedFile \/ ~bookTitle
  /\ selectedFile' = TRUE
  /\ bookTitle' = TRUE
  /\ UNCHANGED <<uploading, uploadSuccess, uploadError, uploadProgress, uploads,
                 OutsideUpload>>

\* The remove button next to the file name, line 75
RemoveFile ==
  /\ selectedFile
  /\ selectedFile' = FALSE
  /\ UNCHANGED <<bookTitle, uploading, uploadSuccess, uploadError,
                 uploadProgress, uploads, OutsideUpload>>

\* The title input of the form, shown while a file is selected (line 96)
EditTitle ==
  /\ selectedFile
  /\ bookTitle' = ~bookTitle
  /\ UNCHANGED <<selectedFile, uploading, uploadSuccess, uploadError,
                 uploadProgress, uploads, OutsideUpload>>

\* The Cancel button, lines 212-215: selectedFile = null; resetForm()
CancelForm ==
  /\ selectedFile
  /\ selectedFile' = FALSE
  /\ bookTitle' = FALSE
  /\ UNCHANGED <<uploading, uploadSuccess, uploadError, uploadProgress, uploads,
                 OutsideUpload>>

\* The Upload button (lines 222-223, disabled while uploading or without a
\* title) runs uploadBook up to its await, lines 468-507
UploadBook ==
  /\ Len(uploads) < MaxUploads
  /\ selectedFile /\ bookTitle
  /\ ~uploading
  /\ uploading' = TRUE
  /\ uploadError' = ""
  /\ uploadSuccess' = ""
  /\ uploadProgress' = [steps |-> FreshSteps]
  /\ uploads' = Append(uploads, [status |-> "inflight", timer |-> 0, wait |-> 0])
  /\ UNCHANGED <<selectedFile, bookTitle, OutsideUpload>>

\* catch and finally, lines 541-548
UploadCaught(n) ==
  /\ uploadError' = ErrorMessage
  /\ uploadProgress' = NULL
  /\ uploading' = FALSE
  /\ uploads' = [uploads EXCEPT ![n].status = "failed"]
  /\ UNCHANGED <<selectedFile, bookTitle, uploadSuccess, OutsideUpload>>

\* The request is answered with success, lines 509-513 and 546-548: the first
\* step is completed and the first timer is set.  Writing the step of a null
\* uploadProgress throws, which the catch block handles.
UploadSucceeds(n) ==
  /\ n <= Len(uploads)
  /\ uploads[n].status = "inflight"
  /\ IF uploadProgress = NULL
     THEN UploadCaught(n)
     ELSE /\ uploadProgress' =
               [steps |-> [uploadProgress.steps EXCEPT ![1] = "completed"]]
          /\ uploading' = FALSE
          /\ uploads' = [uploads EXCEPT
                           ![n] = [status |-> "done", timer |-> 1,
                                   wait |-> StepDelay[1]]]
          /\ UNCHANGED <<selectedFile, bookTitle, uploadSuccess, uploadError,
                         OutsideUpload>>

\* The request is answered with success false, lines 537-540 and 546-548
UploadRefused(n) ==
  /\ n <= Len(uploads)
  /\ uploads[n].status = "inflight"
  /\ uploadError' = ErrorMessage
  /\ uploadProgress' = NULL
  /\ uploading' = FALSE
  /\ uploads' = [uploads EXCEPT ![n].status = "refused"]
  /\ UNCHANGED <<selectedFile, bookTitle, uploadSuccess, OutsideUpload>>

\* The request is rejected, lines 541-548
UploadRejected(n) ==
  /\ n <= Len(uploads)
  /\ uploads[n].status = "inflight"
  /\ UploadCaught(n)

\* One second passes: no pending timer is overdue
Second ==
  /\ \E n \in 1..Len(uploads) : uploads[n].timer > 0
  /\ \A n \in 1..Len(uploads) : uploads[n].timer > 0 => uploads[n].wait > 0
  /\ uploads' = [n \in 1..Len(uploads) |->
                   IF uploads[n].timer > 0
                   THEN [uploads[n] EXCEPT !.wait = @ - 1]
                   ELSE uploads[n]]
  /\ UNCHANGED <<selectedFile, bookTitle, uploading, uploadSuccess, uploadError,
                 uploadProgress, OutsideUpload>>

\* The statuses the k-th timer callback writes, lines 513-536
StepsAfterTimer(steps, k) ==
  IF k = 1 THEN [steps EXCEPT ![2] = "processing"]
  ELSE IF k < 5 THEN [steps EXCEPT ![k] = "completed", ![k + 1] = "processing"]
  ELSE [steps EXCEPT ![5] = "completed"]

\* A timer callback of the n-th upload runs, lines 513-536: it returns when
\* uploadProgress is null, and otherwise writes the steps of the
\* uploadProgress there is and sets the next timer.  Timers of the same step
\* run in the order they were set.
TimerFires(n) ==
  /\ n <= Len(uploads)
  /\ uploads[n].timer > 0 /\ uploads[n].wait = 0
  /\ \A m \in 1..(n - 1) :
       ~(uploads[m].timer = uploads[n].timer /\ uploads[m].wait = 0)
  /\ LET k == uploads[n].timer
     IN IF uploadProgress = NULL
        THEN /\ uploads' = [uploads EXCEPT ![n].timer = 0]
             /\ UNCHANGED <<uploadProgress, uploadSuccess>>
        ELSE /\ uploadProgress' =
                  [steps |-> StepsAfterTimer(uploadProgress.steps, k)]
             /\ uploadSuccess' = IF k = 5 THEN SuccessMessage ELSE uploadSuccess
             /\ uploads' = [uploads EXCEPT
                              ![n].timer = IF k = 5 THEN 0 ELSE k + 1,
                              ![n].wait = IF k = 5 THEN 0 ELSE StepDelay[k + 1]]
  /\ UNCHANGED <<selectedFile, bookTitle, uploading, uploadError, OutsideUpload>>

\* "Upload another book" in the success box, lines 316 and 344: resetAll,
\* lines 564-570
ResetAll ==
  /\ uploadSuccess # ""
  /\ selectedFile' = FALSE
  /\ bookTitle' = FALSE
  /\ uploadSuccess' = ""
  /\ uploadError' = ""
  /\ uploadProgress' = NULL
  /\ UNCHANGED <<uploading, uploads, OutsideUpload>>

\* The close button of the error box, lines 356 and 378
DismissError ==
  /\ uploadError # ""
  /\ uploadError' = ""
  /\ UNCHANGED <<selectedFile, bookTitle, uploading, uploadSuccess,
                 uploadProgress, uploads, OutsideUpload>>

NextUpload ==
  \/ SelectFile
  \/ RemoveFile
  \/ EditTitle
  \/ CancelForm
  \/ UploadBook
  \/ \E n \in 1..MaxUploads : UploadSucceeds(n)
  \/ \E n \in 1..MaxUploads : UploadRefused(n)
  \/ \E n \in 1..MaxUploads : UploadRejected(n)
  \/ Second
  \/ \E n \in 1..MaxUploads : TimerFires(n)
  \/ ResetAll
  \/ DismissError

SpecUpload == InitUpload /\ [][NextUpload]_vars

\* Completed steps, then at most one processing step, then pending steps
StepsInOrder(steps) ==
  \E k \in 0..5 :
    \A i \in 1..5 :
      /\ i <= k => steps[i] = "completed"
      /\ i = k + 1 => steps[i] \in {"processing", "pending"}
      /\ i > k + 1 => steps[i] = "pending"

AllCompleted(steps) == \A i \in 1..5 : steps[i] = "completed"

\* C28: the five steps are completed steps, then at most one processing
\* step, then pending steps; the success message is set only with all five
\* steps of the upload shown completed; the success and the error message are
\* never both set.
C28_ProgressConsistent ==
  /\ uploadProgress # NULL => StepsInOrder(uploadProgress.steps)
  /\ uploadSuccess # "" =>
       uploadProgress # NULL /\ AllCompleted(uploadProgress.steps)
  /\ ~(uploadSuccess # "" /\ uploadError # "")

====
